---- MODULE Spec2Model ----
(***************************************************************************)
(* Community Load Profiles (microgrid_profiles): the run_pipeline          *)
(* orchestrator, the building selector and the aggregation engine.         *)
(*                                                                         *)
(* Conventions of the model                                                *)
(*   - a timestamp is a number of minutes since 2020-01-01 00:00;          *)
(*   - a DataFrame is a record [index |-> sequence of timestamps,          *)
(*     cols |-> function from column names to sequences of cells];         *)
(*     pd.DataFrame() is [index |-> <<>>, cols |-> <<>>];                  *)
(*   - a cell is <<>> (NaN, missing) or <<v>>;                             *)
(*   - a number is an exact fraction [n |-> numerator, d |-> denominator]  *)
(*     in lowest terms (floating point rounding is not modelled);          *)
(*   - an operation that raises returns the record Raised(kind).           *)
(***************************************************************************)
EXTENDS Integers, Sequences, FiniteSets, TLC

VARIABLES
    cfg,          \* ScenarioConfig of the executions (frozen dataclass)
    fs,           \* the input files on disk
    execNo,       \* number of run_pipeline calls started so far
    pc,           \* position of the current run_pipeline call
    i,            \* loop variable of "for i in range(cfg.sample_runs)"
    rng,          \* state of the numpy Generator
    rngCreated,   \* how often np.random.default_rng was called in this execution
    multipliers,  \* the per-run adjustment multipliers (tenths)
    weather_df,   \* <<>> (None) or <<table>>
    compiled,     \* <<>> (None) or <<table>>
    sel,          \* [res |-> res_sel.building_ids, com |-> com_sel.building_ids]
    ts,           \* [res |-> res_ts, com |-> com_ts]
    merged,       \* [res |-> res_m, com |-> com_m]
    hourly,       \* [res |-> res_h, com |-> com_h, tot |-> tot_h]
    derived,      \* daily and monthly tables of the run
    avg,          \* <<>> or <<[res, com, tot, avg_d, avg_mo]>>
    sheets,       \* names of the workbook sheets collected so far
    written,      \* artifacts written by this execution, in order
    log,          \* steps executed by this execution, in order
    err,          \* "" or the exception that left run_pipeline
    result,       \* <<>> or <<returned directory>>
    hist,         \* per execution: the selections and multiplier of each run
    fn,           \* the last call of a library function: [op, in, out]
    configs,      \* table configs of the service: yaml_text by id
    runs,         \* table runs of the service, in order of creation
    worker,       \* the Worker object: _thread, _stop, and the runner mode
    starters,     \* the position of each caller of Worker.start
    wthreads,     \* the "microgrid-runner" threads: their position and run
    http          \* the last POST /runs request and its status code

apiVars == <<configs, runs, worker, starters, wthreads, http>>

vars == <<cfg, fs, execNo, pc, i, rng, rngCreated, multipliers, weather_df,
          compiled, sel, ts, merged, hourly, derived, avg, sheets, written,
          log, err, result, hist, fn, apiVars>>

\* What a step of the service leaves alone.
coreVars == <<cfg, fs, execNo, pc, i, rng, rngCreated, multipliers,
              weather_df, compiled, sel, ts, merged, hourly, derived, avg,
              sheets, written, log, err, result, hist, fn>>

\* What a call of a library function leaves alone.
pipelineVars == <<cfg, fs, execNo, pc, i, rng, rngCreated, multipliers,
                  weather_df, compiled, sel, ts, merged, hourly, derived, avg,
                  sheets, written, log, err, result, hist, apiVars>>

\* The service is not deployed: no table rows, no worker thread.
NoService ==
    /\ configs = <<>> /\ runs = <<>>
    /\ worker = [thread |-> <<>>, stop |-> FALSE, mode |-> "mock"]
    /\ starters = <<>> /\ wthreads = <<>>
    /\ http = [op |-> "none"]

---------------------------------------------------------------------------
(* Generic helpers                                                         *)

Range(s) == {s[k] : k \in DOMAIN s}

Min(S) == CHOOSE x \in S : \A y \in S : x <= y

Max(S) == CHOOSE x \in S : \A y \in S : x >= y

\* The ascending sequence of the integers lo..hi.
Interval(lo, hi) == [k \in 1..(hi - lo + 1) |-> lo + k - 1]

\* The elements of a finite set of integers in ascending order.
RECURSIVE SortedSeq(_)
SortedSeq(S) == IF S = {} THEN <<>> ELSE <<Min(S)>> \o SortedSeq(S \ {Min(S)})

RECURSIVE SumSeq(_)
SumSeq(s) == IF s = <<>> THEN 0 ELSE Head(s) + SumSeq(Tail(s))

\* A raised exception as a value.
Raised(kind) == [raised |-> kind]

IsRaised(x) == DOMAIN x = {"raised"}

\* Cells: NaN and values.
NaN == <<>>

Some(v) == <<v>>

IsNaN(c) == c = <<>>

Val(c) == c[1]

\* Exact fractions in lowest terms, d > 0.
RECURSIVE GCD(_, _)
GCD(a, b) == IF b = 0 THEN a ELSE GCD(b, a % b)

Abs(x) == IF x < 0 THEN 0 - x ELSE x

Rat(n, d) ==
    LET g == GCD(Abs(n), Abs(d))
        sgn == IF d < 0 THEN 0 - 1 ELSE 1
    IN [n |-> sgn * (n \div g), d |-> sgn * (d \div g)]

Num(v) == [n |-> v, d |-> 1]

RatAdd(a, b) == Rat(a.n * b.d + b.n * a.d, a.d * b.d)

RatMul(a, b) == Rat(a.n * b.n, a.d * b.d)

RatLess(a, b) == a.n * b.d < b.n * a.d

---------------------------------------------------------------------------
(* Calendar of pandas' "h", "D" and "ME" frequencies                       *)

MinPerHour == 60

HoursPerDay == 24

MinPerDay == MinPerHour * HoursPerDay

DaysInMonth == <<31, 29, 31, 30, 31, 30, 31, 31, 30, 31, 30, 31>>

\* First day (0-based, from 2020-01-01) of month m (0-based).
RECURSIVE MonthStartDay(_)
MonthStartDay(m) == IF m = 0 THEN 0 ELSE MonthStartDay(m - 1) + DaysInMonth[m]

HourOf(t) == t \div MinPerHour

DayOf(t) == t \div MinPerDay

MonthOf(t) ==
    CHOOSE m \in 0..11 : /\ MonthStartDay(m) <= DayOf(t)
                         /\ DayOf(t) < MonthStartDay(m) + DaysInMonth[m + 1]

\* Bucket labels: the hour, the day at midnight, the last day of the month.
HourLabel(h) == h * MinPerHour

DayLabel(d) == d * MinPerDay

MonthEndLabel(m) == (MonthStartDay(m) + DaysInMonth[m + 1] - 1) * MinPerDay

---------------------------------------------------------------------------
(* DataFrames                                                              *)

EmptyFrame == [index |-> <<>>, cols |-> <<>>]

Frame(idx, cols) == [index |-> idx, cols |-> cols]

ColNames(t) == DOMAIN t.cols

NRows(t) == Len(t.index)

\* DataFrame.empty: no rows or no columns.
IsEmptyFrame(t) == NRows(t) = 0 \/ ColNames(t) = {}

\* df[[c1, ...]]
SelectCols(t, names) == Frame(t.index, [c \in names |-> t.cols[c]])

\* The columns pandas treats as non-numeric (numeric_only=True drops them):
\* the weather source label and the building type.
StringCols == {"weather_source", "building_type", "comstock_building_type"}

IsNumericCol(c) == c \notin StringCols

\* Position of timestamp t in an index, 0 when absent.
PosOf(idx, t) ==
    IF \E k \in DOMAIN idx : idx[k] = t
    THEN Min({k \in DOMAIN idx : idx[k] = t})
    ELSE 0

\* The cell of a column at timestamp t, NaN when the index has no such row.
CellAt(idx, col, t) == IF PosOf(idx, t) = 0 THEN NaN ELSE col[PosOf(idx, t)]

\* The rows of an index that fall into bucket b.
RowsIn(idx, B(_), b) == {k \in DOMAIN idx : B(idx[k]) = b}

\* Sum (skipping NaN) of the cells of a column at the rows K.
RECURSIVE SumOver(_, _)
SumOver(col, K) ==
    IF K = {} THEN Num(0)
    ELSE IF Min(K) = Max(K) THEN (IF IsNaN(col[Min(K)]) THEN Num(0) ELSE Val(col[Min(K)]))
    ELSE RatAdd(SumOver(col, {k \in K : 2 * k <= Min(K) + Max(K)}),
                SumOver(col, {k \in K : 2 * k > Min(K) + Max(K)}))

CountOver(col, K) == Cardinality({k \in K : ~IsNaN(col[k])})

\* The buckets first..last that a resample of the index spans.
Buckets(idx, B(_)) ==
    Interval(Min({B(idx[k]) : k \in DOMAIN idx}), Max({B(idx[k]) : k \in DOMAIN idx}))

\* df.resample(freq).sum(numeric_only=True): 0 for a bucket without values.
ResampleSum(t, B(_), L(_)) ==
    LET bs == Buckets(t.index, B)
    IN Frame([k \in DOMAIN bs |-> L(bs[k])],
             [c \in {x \in ColNames(t) : IsNumericCol(x)} |->
                 [k \in DOMAIN bs |->
                     Some(SumOver(t.cols[c], RowsIn(t.index, B, bs[k])))]])

\* Mean (skipping NaN) of the cells of a column at the rows K: NaN when
\* there is no value.
MeanOver(col, K) ==
    IF CountOver(col, K) = 0 THEN NaN
    ELSE Some(RatMul(SumOver(col, K), Rat(1, CountOver(col, K))))

\* df.resample(freq).mean(numeric_only=True): NaN for a bucket without values.
ResampleMean(t, B(_), L(_)) ==
    LET bs == Buckets(t.index, B)
    IN Frame([k \in DOMAIN bs |-> L(bs[k])],
             [c \in {x \in ColNames(t) : IsNumericCol(x)} |->
                 [k \in DOMAIN bs |-> MeanOver(t.cols[c], RowsIn(t.index, B, bs[k]))]])

---------------------------------------------------------------------------
(* Aggregation engine (transforms.py)                                      *)

resample_hourly_sum(df) ==
    IF ~IsEmptyFrame(df) THEN ResampleSum(df, HourOf, HourLabel) ELSE df

agg_daily_sum_first_day_only(df) ==
    IF ~IsEmptyFrame(df)
    THEN LET r == ResampleSum(df, DayOf, DayLabel)
         IN Frame(SubSeq(r.index, 1, 1), [c \in ColNames(r) |-> SubSeq(r.cols[c], 1, 1)])
    ELSE df

agg_daily_sum(df) ==
    IF ~IsEmptyFrame(df) THEN ResampleSum(df, DayOf, DayLabel) ELSE df

agg_monthly_sum(df) ==
    IF ~IsEmptyFrame(df) THEN ResampleSum(df, MonthOf, MonthEndLabel) ELSE df

agg_daily_mean_rejects_empty(df, col) ==
    IF ~IsEmptyFrame(df) /\ col \in ColNames(df)
    THEN ResampleMean(SelectCols(df, {col}), DayOf, DayLabel)
    ELSE Raised("KeyError")

agg_daily_mean(df, col) ==
    IF ~IsEmptyFrame(df) /\ col \in ColNames(df)
    THEN ResampleMean(SelectCols(df, {col}), DayOf, DayLabel)
    ELSE Frame(df.index, <<>>)

agg_monthly_mean(df, col) ==
    IF ~IsEmptyFrame(df) /\ col \in ColNames(df)
    THEN ResampleMean(SelectCols(df, {col}), MonthOf, MonthEndLabel)
    ELSE Frame(df.index, <<>>)

\* pd.concat(parts, axis=1): the outer-aligned index of the parts.
ConcatIndex(parts) ==
    IF \A p \in DOMAIN parts : parts[p].index = parts[1].index
    THEN parts[1].index
    ELSE SortedSeq(UNION {Range(parts[p].index) : p \in DOMAIN parts})

\* .fillna(0.0).sum(axis=1) at timestamp t over the aligned parts.
RECURSIVE SumParts(_, _)
SumParts(parts, t) ==
    IF parts = <<>> THEN Num(0)
    ELSE LET c == CellAt(Head(parts).index, Head(parts).vals, t)
         IN RatAdd(IF IsNaN(c) THEN Num(0) ELSE Val(c), SumParts(Tail(parts), t))

\* pd.concat(parts, axis=1).fillna(0.0).sum(axis=1).to_frame("Total")
TotalOf(parts, idx) ==
    Frame(idx, [c \in {"Total"} |-> [k \in DOMAIN idx |-> Some(SumParts(parts, idx[k]))]])

\* The series build_total collects: a sector's energy column, if it has one.
TotalParts(res_h, com_h, res_kwh_col, com_kwh_col) ==
    (IF res_kwh_col \in ColNames(res_h)
     THEN <<[index |-> res_h.index, vals |-> res_h.cols[res_kwh_col]]>>
     ELSE <<>>)
    \o
    (IF com_kwh_col \in ColNames(com_h)
     THEN <<[index |-> com_h.index, vals |-> com_h.cols[com_kwh_col]]>>
     ELSE <<>>)

ConcatTotal(parts) == IF parts = <<>> THEN EmptyFrame ELSE TotalOf(parts, ConcatIndex(parts))

build_total_drops_commercial(res_h, com_h, res_kwh_col, com_kwh_col) ==
    IF res_kwh_col \in ColNames(res_h)
    THEN Frame(res_h.index, [c \in {"Total"} |-> res_h.cols[res_kwh_col]])
    ELSE EmptyFrame

\* build_total: the row-wise sum of the sectors' energy over the union index.
build_total(res_h, com_h, res_kwh_col, com_kwh_col) ==
    ConcatTotal(TotalParts(res_h, com_h, res_kwh_col, com_kwh_col))

build_compiled(idx) == Frame(idx, <<>>)

\* The compiled table's column names f"Residential{i}" / f"Commercial{i}",
\* kept as (prefix, run) so that str.startswith can be decided.
RunCol(sector, run) == [sector |-> sector, run |-> run]

\* out[name] = values: pandas sets the column when the lengths agree, lets a
\* frame without rows take the length of the values, and raises otherwise.
SetCol(t, name, values) ==
    IF NRows(t) = 0 /\ Len(values) > 0
    THEN Frame([k \in DOMAIN values |-> k - 1],
               [c \in ColNames(t) \cup {name} |->
                   IF c = name THEN values ELSE [k \in DOMAIN values |-> NaN]])
    ELSE IF Len(values) # NRows(t)
    THEN Raised("ValueError")
    ELSE Frame(t.index,
               [c \in ColNames(t) \cup {name} |->
                   IF c = name THEN values ELSE t.cols[c]])

\* out[f"Commercial{run}"] = com_h[com_kwh_col].values, out already holding
\* the residential column (or the error of setting it).
AddCommercial(out, run, com_h, com_kwh_col) ==
    IF IsRaised(out) THEN out
    ELSE IF com_kwh_col \notin ColNames(com_h) THEN Raised("KeyError")
    ELSE SetCol(out, RunCol("Commercial", run), com_h.cols[com_kwh_col])

add_run_cols_overwrites_run0(compiled_, run, res_h, com_h, res_kwh_col, com_kwh_col) ==
    IF res_kwh_col \notin ColNames(res_h) THEN Raised("KeyError")
    ELSE AddCommercial(SetCol(compiled_, RunCol("Residential", 0), res_h.cols[res_kwh_col]),
                       0, com_h, com_kwh_col)

add_run_cols(compiled_, run, res_h, com_h, res_kwh_col, com_kwh_col) ==
    IF res_kwh_col \notin ColNames(res_h) THEN Raised("KeyError")
    ELSE AddCommercial(SetCol(compiled_, RunCol("Residential", run), res_h.cols[res_kwh_col]),
                       run, com_h, com_kwh_col)

\* Sum and count of the non-missing cells of row k over a set of columns.
RECURSIVE RowSum(_, _, _)
RowSum(t, C, k) ==
    IF C = {} THEN Num(0)
    ELSE LET c == CHOOSE x \in C : TRUE
         IN RatAdd(IF IsNaN(t.cols[c][k]) THEN Num(0) ELSE Val(t.cols[c][k]),
                   RowSum(t, C \ {c}, k))

RowCount(t, C, k) == Cardinality({c \in C : ~IsNaN(t.cols[c][k])})

\* compiled[cols].mean(axis=1): the row mean, NaN for a row without values.
RowMean(t, C) ==
    [k \in DOMAIN t.index |->
        IF RowCount(t, C, k) = 0 THEN NaN
        ELSE Some(RatMul(RowSum(t, C, k), Rat(1, RowCount(t, C, k))))]

\* The columns of the compiled table whose name starts with the prefix.
StartsWith(t, prefix) == {c \in ColNames(t) : c.sector = prefix}

\* res.add(com, fill_value=0.0): a missing side counts as 0, but the result
\* is missing where both sides are missing.
AddFill(a, b) ==
    [k \in DOMAIN a |->
        IF IsNaN(a[k]) /\ IsNaN(b[k]) THEN NaN
        ELSE Some(RatAdd(IF IsNaN(a[k]) THEN Num(0) ELSE Val(a[k]),
                         IF IsNaN(b[k]) THEN Num(0) ELSE Val(b[k])))]

\* The three one-column frames avg_from_compiled returns.
AvgFrames(idx, res, com) ==
    [res |-> Frame(idx, [c \in {"Residential"} |-> res]),
     com |-> Frame(idx, [c \in {"Commercial"} |-> com]),
     tot |-> Frame(idx, [c \in {"Total"} |-> AddFill(res, com)])]

\* compiled[cols].mean(axis=1) if cols else a series of NaN
SectorMean(t, C) == IF C # {} THEN RowMean(t, C) ELSE [k \in DOMAIN t.index |-> NaN]

avg_from_compiled(compiled_) ==
    AvgFrames(compiled_.index,
              SectorMean(compiled_, StartsWith(compiled_, "Residential")),
              SectorMean(compiled_, StartsWith(compiled_, "Commercial")))

\* pd.concat([res_avg, com_avg, tot_avg], axis=1) of three frames on one index.
ConcatCols(a, b, c) ==
    Frame(a.index,
          [n \in ColNames(a) \cup ColNames(b) \cup ColNames(c) |->
              IF n \in ColNames(a) THEN a.cols[n]
              ELSE IF n \in ColNames(b) THEN b.cols[n] ELSE c.cols[n]])

\* typical_day_monthly: hourly_series is [index, vals, datetime], datetime
\* telling whether the index is a DatetimeIndex (.month, .hour exist).
HourOfDay(t) == HourOf(t) % HoursPerDay

MonthNo(t) == MonthOf(t) + 1

\* The (month, hour) group of a timestamp as one integer.
MonthHourKey(t) == MonthNo(t) * HoursPerDay + HourOfDay(t)

GroupMean_first_value(hourly_series, key) ==
    hourly_series.vals[CHOOSE k \in DOMAIN hourly_series.index :
                           /\ MonthHourKey(hourly_series.index[k]) = key
                           /\ \A j \in 1..(k - 1) : MonthHourKey(hourly_series.index[j]) # key]

\* groupby(["month", "hour"])["kwh"].mean() for one group.
GroupMean(hourly_series, key) ==
    MeanOver(hourly_series.vals,
             {k \in DOMAIN hourly_series.index : MonthHourKey(hourly_series.index[k]) = key})

\* long_df: one row per observed (month, hour), ascending.
LongRows(hourly_series, sector, ks) ==
    [k \in DOMAIN ks |->
        [sector |-> sector, month |-> ks[k] \div HoursPerDay, hour |-> ks[k] % HoursPerDay,
         mean_kwh |-> GroupMean(hourly_series, ks[k])]]

PivotCell(long_df, kept, m, h) ==
    IF \E k \in kept : long_df[k].month = m /\ long_df[k].hour = h
    THEN long_df[CHOOSE k \in kept : long_df[k].month = m /\ long_df[k].hour = h].mean_kwh
    ELSE NaN

\* long_df.pivot_table(index="hour", columns="month", values="mean_kwh",
\* aggfunc="mean"): rows without a value are dropped.
PivotFrame(long_df, kept, hours) ==
    Frame(hours,
          [m \in {long_df[k].month : k \in kept} |->
              [j \in DOMAIN hours |-> PivotCell(long_df, kept, m, hours[j])]])

PivotOf(long_df, kept) == PivotFrame(long_df, kept, SortedSeq({long_df[k].hour : k \in kept}))

TypicalDay(long_df) ==
    [long_df |-> long_df,
     pivot |-> PivotOf(long_df, {k \in DOMAIN long_df : ~IsNaN(long_df[k].mean_kwh)})]

typical_day_monthly(hourly_series, sector) ==
    IF ~hourly_series.datetime THEN Raised("AttributeError")
    ELSE TypicalDay(LongRows(hourly_series, sector,
                             SortedSeq({MonthHourKey(hourly_series.index[k]) :
                                           k \in DOMAIN hourly_series.index})))

---------------------------------------------------------------------------
(* Random generator (numpy.random.Generator)                               *)
(*                                                                         *)
(* The generator is a deterministic state machine: every draw is a         *)
(* function of the state and advances it.  PCG64 is abstracted to a        *)
(* 4-bit linear congruential generator; a bounded integer is taken from    *)
(* the state by multiply-shift, a normal(1.0, 0.2) draw is one of the      *)
(* multipliers 0.8, 1.0, 1.2.                                              *)

default_rng_entropy(seed) == (seed + 7 * execNo) % 16

\* np.random.default_rng(seed)
default_rng(seed) == seed % 16

RngNext(s) == (5 * s + 3) % 16

\* rng.integers(0, n, size=k): [vals, rng]
RECURSIVE RngIntegers(_, _, _)
RngIntegers(s, n, k) ==
    IF k = 0 THEN [vals |-> <<>>, rng |-> s]
    ELSE LET s1 == RngNext(s)
             rest == RngIntegers(s1, n, k - 1)
         IN [vals |-> <<(s1 * n) \div 16>> \o rest.vals, rng |-> rest.rng]

\* rng.normal(1.0, 0.2, size=k): [vals, rng]
RECURSIVE RngNormal(_, _)
RngNormal(s, k) ==
    IF k = 0 THEN [vals |-> <<>>, rng |-> s]
    ELSE LET s1 == RngNext(s)
             rest == RngNormal(s1, k - 1)
         IN [vals |-> <<Rat(8 + 2 * ((s1 * 3) \div 16), 10)>> \o rest.vals,
             rng |-> rest.rng]

---------------------------------------------------------------------------
(* Building selector (selection.py)                                        *)

sample_first_item(rng_, items, k) ==
    IF k <= 0 \/ items = <<>> THEN [ids |-> <<>>, rng |-> rng_]
    ELSE [ids |-> [j \in 1..(k - 1) |-> items[1]],
          rng |-> RngIntegers(rng_, Len(items), k).rng]

\* _sample(rng, items, k): [ids, rng]
sample(rng_, items, k) ==
    IF k <= 0 \/ items = <<>> THEN [ids |-> <<>>, rng |-> rng_]
    ELSE LET idx == RngIntegers(rng_, Len(items), k)
         IN [ids |-> [j \in 1..k |-> items[idx.vals[j] + 1]], rng |-> idx.rng]

\* Python's round(num / den) for num >= 0: round half to even.
RoundHalfEven(num, den) ==
    LET q == num \div den
        r == num % den
    IN IF 2 * r < den THEN q
       ELSE IF 2 * r > den THEN q + 1
       ELSE IF q % 2 = 0 THEN q ELSE q + 1

Candidates_any(chars, type_col, name) == [k \in DOMAIN chars |-> chars[k].bldg_id]

\* chars.loc[chars[type_col] == name, id_col].tolist()
RECURSIVE Candidates(_, _, _)
Candidates(chars, type_col, name) ==
    IF chars = <<>> THEN <<>>
    ELSE (IF Head(chars)[type_col] = name THEN <<Head(chars).bldg_id>> ELSE <<>>)
         \o Candidates(Tail(chars), type_col, name)

\* chars[chars[id_col].isin(chosen)][type_col].value_counts()
ValueCounts(chars, type_col, chosen) ==
    LET rows == {k \in DOMAIN chars : chars[k].bldg_id \in Range(chosen)}
        types == {chars[k][type_col] : k \in rows}
    IN [t \in types |-> Cardinality({k \in rows : chars[k][type_col] = t})]

\* The loop "for name in names: chosen.extend(_sample(rng, candidates, k))"
\* over a plan of (type, count) pairs: [ids, rng].
RECURSIVE SamplePlan(_, _, _, _)
SamplePlan(rng_, chars, type_col, plan) ==
    IF plan = <<>> THEN [ids |-> <<>>, rng |-> rng_]
    ELSE LET one == sample(rng_, Candidates(chars, type_col, Head(plan)[1]), Head(plan)[2])
             rest == SamplePlan(one.rng, chars, type_col, Tail(plan))
         IN [ids |-> one.ids \o rest.ids, rng |-> rest.rng]

\* The fractions of the configuration are exact fractions of 1.
construct_neighborhood_residential(cfg_, chars, rng_) ==
    LET n == cfg_.neighborhood
        mf_count == RoundHalfEven(n.total_buildings * n.multifamily_buildings_percent_of_total.n,
                                  n.multifamily_buildings_percent_of_total.d)
        pct(name) == IF name \in DOMAIN n.multifamily_buildings_percentages
                     THEN n.multifamily_buildings_percentages[name] ELSE Num(0)
        plan == [j \in DOMAIN n.multifamily_building_names |->
                    <<n.multifamily_building_names[j],
                      RoundHalfEven(mf_count * pct(n.multifamily_building_names[j]).n,
                                    pct(n.multifamily_building_names[j]).d)>>]
        chosen == SamplePlan(rng_, chars, cfg_.columns.resstock_building_type, plan)
    IN [building_ids |-> chosen.ids,
        counts_by_type |-> ValueCounts(chars, cfg_.columns.resstock_building_type, chosen.ids),
        rng |-> chosen.rng]

CommercialPlan_public_only(include_public) ==
    IF include_public
    THEN <<<<"SmallHotel", 1>>, <<"Hospital", 1>>, <<"PrimarySchool", 1>>,
           <<"SecondarySchool", 1>>>>
    ELSE <<<<"LargeOffice", 5>>, <<"MediumOffice", 3>>, <<"RetailStandalone", 6>>,
           <<"RetailStripmall", 4>>, <<"Warehouse", 7>>>>

\* plan, extended by the public-building types when cfg.include_public
CommercialPlan(include_public) ==
    <<<<"LargeOffice", 5>>, <<"MediumOffice", 3>>, <<"RetailStandalone", 6>>,
      <<"RetailStripmall", 4>>, <<"Warehouse", 7>>>>
    \o (IF include_public
        THEN <<<<"SmallHotel", 1>>, <<"Hospital", 1>>, <<"PrimarySchool", 1>>,
               <<"SecondarySchool", 1>>>>
        ELSE <<>>)

construct_neighborhood_commercial(cfg_, chars, rng_) ==
    LET chosen == SamplePlan(rng_, chars, cfg_.columns.comstock_building_type,
                             CommercialPlan(cfg_.include_public))
    IN [building_ids |-> chosen.ids,
        counts_by_type |-> ValueCounts(chars, cfg_.columns.comstock_building_type, chosen.ids),
        rng |-> chosen.rng]

---------------------------------------------------------------------------
(* Input data: characteristics tables and per-building timeseries files    *)

ResChars ==
    <<[bldg_id |-> 1, building_type |-> "Multi-Family with 5+ Units", units |-> 4, sqft |-> 900],
      [bldg_id |-> 2, building_type |-> "Multi-Family with 5+ Units", units |-> 6, sqft |-> 800],
      [bldg_id |-> 3, building_type |-> "Multi-Family with 2 - 4 Units", units |-> 2, sqft |-> 1200],
      [bldg_id |-> 4, building_type |-> "Single-Family Detached", units |-> 1, sqft |-> 2000]>>

ComChars ==
    <<[bldg_id |-> 11, comstock_building_type |-> "LargeOffice", sqft |-> 50000],
      [bldg_id |-> 12, comstock_building_type |-> "Warehouse", sqft |-> 20000],
      [bldg_id |-> 13, comstock_building_type |-> "Hospital", sqft |-> 90000]>>

ResCharsCols == {"bldg_id", "building_type", "units", "sqft"}

ComCharsCols == {"bldg_id", "comstock_building_type", "sqft"}

\* 2020-01-31 23:00, one hour before the January/February boundary.
T0 == ((MonthStartDay(1) - 1) * HoursPerDay + 23) * MinPerHour

\* The rows (timestamp, kWh) of the parquet file of a building.  Building 1
\* reports half-hourly; building 2 covers a later period than building 1.
BuildingRows(bid) ==
    CASE bid = 1 -> <<<<T0, 1>>, <<T0 + 30, 1>>, <<T0 + 60, 3>>>>
      [] bid = 2 -> <<<<T0 + 60, 2>>, <<T0 + 120, 4>>>>
      [] bid = 3 -> <<<<T0, 5>>, <<T0 + 60, 1>>>>
      [] bid = 4 -> <<<<T0, 2>>, <<T0 + 60, 2>>>>
      [] bid = 11 -> <<<<T0, 20>>, <<T0 + 60, 30>>>>
      [] bid = 12 -> <<<<T0, 7>>, <<T0 + 60, 9>>>>
      [] OTHER -> <<<<T0, 40>>, <<T0 + 60, 40>>>>

---------------------------------------------------------------------------
(* I/O (io.py, selection.py)                                               *)

\* building_parquet_path(timeseries_dir, building_id)
building_parquet_path(timeseries_dir, building_id) == <<timeseries_dir, building_id>>

\* read_building_parquet(path, columns): the file as a frame, or the error.
\* The parquet file of building bid with rows (timestamp, kWh) as a frame
\* with a RangeIndex, restricted to the requested columns.
ParquetFrame(bid, rows, columns) ==
    Frame([k \in DOMAIN rows |-> k - 1],
          [c \in (IF columns = <<>> THEN {"bldg_id", "timestamp", "kwh"}
                  ELSE Range(columns[1])) |->
              [k \in DOMAIN rows |->
                  CASE c = "bldg_id" -> Some(Num(bid))
                    [] c = "timestamp" -> Some(rows[k][1])
                    [] OTHER -> Some(Num(rows[k][2]))]])

read_building_parquet(files, path, columns) ==
    IF path \in files.missing THEN Raised("FileNotFoundError")
    ELSE ParquetFrame(path[2], BuildingRows(path[2]), columns)

\* pd.concat(dfs, axis=0) of frames with the same columns.
RECURSIVE ConcatRows(_)
ConcatRows(dfs) ==
    IF Len(dfs) = 1 THEN dfs[1]
    ELSE LET rest == ConcatRows(Tail(dfs))
         IN Frame(dfs[1].index \o rest.index,
                  [c \in ColNames(dfs[1]) |-> dfs[1].cols[c] \o rest.cols[c]])

\* "frames = [...]; if not frames: return pd.DataFrame(); pd.concat(frames)",
\* the first failing read leaving the function.
ConcatRead(dfs) ==
    IF \E k \in DOMAIN dfs : IsRaised(dfs[k]) THEN Raised("FileNotFoundError")
    ELSE IF dfs = <<>> THEN EmptyFrame
    ELSE ConcatRows(dfs)

\* read_many_building_parquets(paths) and, with columns, the result of
\* read_many_building_parquets_cached(paths, max_workers, columns).
read_many_building_parquets(files, paths, columns) ==
    ConcatRead([k \in DOMAIN paths |-> read_building_parquet(files, paths[k], columns)])

---------------------------------------------------------------------------
(* Timeseries merge and adjustment (transforms.py)                         *)

\* chars[chars[id_col].isin(building_ids)]
CharsSubset(chars, building_ids) ==
    SelectSeq(chars, LAMBDA r : r.bldg_id \in Range(building_ids))

\* A characteristics value as a cell: numbers as fractions, types as text.
CharCell(c, v) == IF IsNumericCol(c) THEN Some(Num(v)) ELSE Some(v)

\* ts.merge(chars, on=id_col, how="left"), timestamp parsed and made the index.
merge_timeseries(ts_, chars, chars_cols, id_col) ==
    IF id_col \notin ColNames(ts_) THEN Raised("KeyError")
    ELSE IF "timestamp" \notin ColNames(ts_) THEN Raised("KeyError")
    ELSE LET row(k) == {j \in DOMAIN chars : chars[j][id_col] = Val(ts_.cols[id_col][k]).n}
             cell(c, k) ==
                 IF c \in ColNames(ts_) THEN ts_.cols[c][k]
                 ELSE IF row(k) = {} THEN NaN
                 ELSE CharCell(c, chars[Min(row(k))][c])
         IN Frame([k \in DOMAIN ts_.index |-> Val(ts_.cols["timestamp"][k])],
                  [c \in (ColNames(ts_) \ {"timestamp"}) \cup (chars_cols \ {id_col}) |->
                      [k \in DOMAIN ts_.index |-> cell(c, k)]])

MulCell(a, b) == IF IsNaN(a) \/ IsNaN(b) THEN NaN ELSE Some(RatMul(Val(a), Val(b)))

apply_multifamily_adjustments_scales_all(cfg_, df) ==
    IF "building_type" \notin ColNames(df) THEN df
    ELSE Frame(df.index,
               [n \in ColNames(df) \cup (IF {"sqft", "units"} \subseteq ColNames(df)
                                        THEN {"in.sqft_adjust"} ELSE {}) |->
                   IF n = "in.sqft_adjust"
                   THEN [k \in DOMAIN df.index |-> MulCell(df.cols["sqft"][k], df.cols["units"][k])]
                   ELSE IF n = "kwh" /\ "units" \in ColNames(df)
                   THEN [k \in DOMAIN df.index |-> MulCell(df.cols["kwh"][k], df.cols["units"][k])]
                   ELSE df.cols[n]])

\* apply_multifamily_adjustments(cfg, df): the adjusted copy of df.
apply_multifamily_adjustments(cfg_, df) ==
    LET c == cfg_.columns
        rows == DOMAIN df.index
        mf_mask(k) == /\ ~IsNaN(df.cols[c.resstock_building_type][k])
                      /\ Val(df.cols[c.resstock_building_type][k]) \in Range(cfg_.multifamily_filter)
        scale_kwh == c.electricity_kwh \in ColNames(df) /\ c.resstock_units_mf \in ColNames(df)
        add_sqft == c.resstock_sqft \in ColNames(df) /\ c.resstock_units_mf \in ColNames(df)
        scaled(col) == [k \in rows |->
                           IF mf_mask(k) THEN MulCell(df.cols[col][k], df.cols[c.resstock_units_mf][k])
                           ELSE df.cols[col][k]]
    IN IF c.resstock_building_type \notin ColNames(df) THEN df
       ELSE Frame(df.index,
                  [n \in ColNames(df) \cup (IF add_sqft THEN {"in.sqft_adjust"} ELSE {}) |->
                      IF n = "in.sqft_adjust" /\ add_sqft THEN scaled(c.resstock_sqft)
                      ELSE IF n = c.electricity_kwh /\ scale_kwh THEN scaled(n)
                      ELSE df.cols[n]])

ScaleCol_not_applied(df, col, m) == df

\* res_m[col] = res_m[col] * float(multipliers[i])
ScaleCol(df, col, m) ==
    IF col \notin ColNames(df) THEN df
    ELSE Frame(df.index,
               [n \in ColNames(df) |->
                   IF n = col THEN [k \in DOMAIN df.index |-> MulCell(df.cols[n][k], Some(m))]
                   ELSE df.cols[n]])

\* a.join(b, how="left"): b's columns at a's timestamps; overlapping column
\* names raise ("columns overlap but no suffix specified").
JoinLeft(a, b) ==
    IF ColNames(a) \cap ColNames(b) # {} THEN Raised("ValueError")
    ELSE Frame(a.index,
               [n \in ColNames(a) \cup ColNames(b) |->
                   IF n \in ColNames(a) THEN a.cols[n]
                   ELSE [k \in DOMAIN a.index |-> CellAt(b.index, b.cols[n], a.index[k])]])

combine_first_later_wins(a, b) ==
    Frame(SortedSeq(Range(a.index) \cup Range(b.index)),
          [n \in ColNames(a) \cup ColNames(b) |->
              [k \in DOMAIN SortedSeq(Range(a.index) \cup Range(b.index)) |->
                  IF n \in ColNames(b)
                     /\ ~IsNaN(CellAt(b.index, b.cols[n],
                                     SortedSeq(Range(a.index) \cup Range(b.index))[k]))
                  THEN CellAt(b.index, b.cols[n], SortedSeq(Range(a.index) \cup Range(b.index))[k])
                  ELSE IF n \in ColNames(a)
                  THEN CellAt(a.index, a.cols[n], SortedSeq(Range(a.index) \cup Range(b.index))[k])
                  ELSE NaN]])

\* a.combine_first(b): a's value where it is not missing, else b's.
combine_first(a, b) ==
    LET idx == SortedSeq(Range(a.index) \cup Range(b.index))
        cell(t, n, x) == IF n \in ColNames(t) THEN CellAt(t.index, t.cols[n], x) ELSE NaN
    IN Frame(idx,
             [n \in ColNames(a) \cup ColNames(b) |->
                 [k \in DOMAIN idx |->
                     IF ~IsNaN(cell(a, n, idx[k])) THEN cell(a, n, idx[k])
                     ELSE cell(b, n, idx[k])]])

---------------------------------------------------------------------------
(* Weather normalizer (weather.py)                                         *)

\* 1970-01-01 00:00, where pd.to_datetime puts the integers of a RangeIndex.
Epoch1970 == 0 - 18262 * MinPerDay

\* The weather CSV files: which columns exist, and the rows (datetime, value),
\* a datetime or a value that does not parse being NaN.
WeatherFile(f) ==
    CASE f = 1 -> [dt_col |-> TRUE, temp_col |-> TRUE,
                   rows |-> <<[dt |-> Some(T0), temp |-> Some(Num(10))],
                              [dt |-> Some(T0 + 30), temp |-> Some(Num(12))],
                              [dt |-> Some(T0 + 60), temp |-> NaN]>>]
      [] OTHER -> [dt_col |-> TRUE, temp_col |-> TRUE,
                   rows |-> <<[dt |-> Some(T0), temp |-> Some(Num(20))],
                              [dt |-> Some(T0 + 60), temp |-> Some(Num(14))],
                              [dt |-> Some(T0 + 120), temp |-> Some(Num(16))]>>]

\* Insertion of a fraction into an ascending sequence; sorting.
RECURSIVE InsertRat(_, _)
InsertRat(x, sorted) ==
    IF sorted = <<>> THEN <<x>>
    ELSE IF RatLess(Head(sorted), x) THEN <<Head(sorted)>> \o InsertRat(x, Tail(sorted))
    ELSE <<x>> \o sorted

RECURSIVE SortRats(_)
SortRats(xs) == IF xs = <<>> THEN <<>> ELSE InsertRat(Head(xs), SortRats(Tail(xs)))

\* Series.median(): NaN for an empty series.
MedianSorted(v) ==
    IF Len(v) = 0 THEN NaN
    ELSE IF Len(v) % 2 = 1 THEN Some(v[(Len(v) + 1) \div 2])
    ELSE Some(RatMul(RatAdd(v[Len(v) \div 2], v[Len(v) \div 2 + 1]), Rat(1, 2)))

Median(xs) == MedianSorted(SortRats(xs))

FtoC(x) == RatMul(RatAdd(x, Num(0 - 32)), Rat(5, 9))

CtoF(x) == RatAdd(RatMul(x, Rat(9, 5)), Num(32))

\* preferred_units.upper().strip()
UpperStrip(u) ==
    CASE u \in {"C", "c", " c "} -> "C"
      [] u \in {"F", "f", " f "} -> "F"
      [] OTHER -> u

\* lines 72-77 and 98: the rows whose datetime parses (when the file has a
\* datetime column) and whose temperature is numeric.
WeatherRows(file) ==
    SelectSeq(file.rows, LAMBDA r : (file.dt_col => ~IsNaN(r.dt)) /\ ~IsNaN(r.temp))

\* The index a row gets: its datetime, or the row number read as a time.
WeatherStamp(file, r) == IF file.dt_col THEN Val(r.dt) ELSE Epoch1970

ConvertByMedian_each_value(raw, med, units) ==
    [k \in DOMAIN raw |->
        IF units = "C" /\ RatLess(Num(45), raw[k]) THEN FtoC(raw[k])
        ELSE IF units = "F" /\ RatLess(raw[k], Num(35)) THEN CtoF(raw[k])
        ELSE raw[k]]

\* lines 106-111: the heuristic unit conversion by the median.
ConvertByMedian(raw, med, units) ==
    IF units = "C" /\ ~IsNaN(med) /\ RatLess(Num(45), Val(med))
    THEN [k \in DOMAIN raw |-> FtoC(raw[k])]
    ELSE IF units = "F" /\ ~IsNaN(med) /\ RatLess(Val(med), Num(35))
    THEN [k \in DOMAIN raw |-> CtoF(raw[k])]
    ELSE raw

ConvertUnits(raw, units) == ConvertByMedian(raw, Median(raw), units)

\* line 115: the hourly mean of the converted temperatures.
WeatherHourly(out) == IF NRows(out) = 0 THEN out ELSE ResampleMean(out, HourOf, HourLabel)

WeatherOut(file, valued, units) ==
    WeatherHourly(
        Frame([k \in DOMAIN valued |-> WeatherStamp(file, valued[k])],
              [c \in {"outdoor_air_temperature"} |->
                  [k \in DOMAIN valued |->
                      Some(ConvertUnits([j \in DOMAIN valued |-> Val(valued[j].temp)], units)[k])]]))

\* lines 117-118: the optional source label column.
WeatherLabelled(out, source_label) ==
    IF source_label = "" THEN out
    ELSE Frame(out.index,
               [c \in ColNames(out) \cup {"weather_source"} |->
                   IF c = "weather_source"
                   THEN [k \in DOMAIN out.index |-> Some(source_label)]
                   ELSE out.cols[c]])

WeatherOfFile(file, units, source_label) ==
    IF ~file.temp_col THEN Raised("ValueError")
    ELSE IF units \notin {"C", "F"} THEN Raised("ValueError")
    ELSE WeatherLabelled(WeatherOut(file, WeatherRows(file), units), source_label)

\* read_weather_csv_auto(path, preferred_units, source_label).df, or the error.
read_weather_csv_auto(files, path, preferred_units, source_label) ==
    IF path \in files.missing THEN Raised("FileNotFoundError")
    ELSE WeatherOfFile(WeatherFile(path[2]), UpperStrip(preferred_units), source_label)

---------------------------------------------------------------------------
(* Pipeline orchestrator (pipeline.py): configurations and environments    *)

MaxRuns == 2

MaxSeed == 2

MaxExecs == 2

Columns ==
    [building_id_resstock |-> "bldg_id", building_id_comstock |-> "bldg_id",
     resstock_building_type |-> "building_type", resstock_units_mf |-> "units",
     resstock_sqft |-> "sqft", resstock_electricity_kwh |-> "kwh",
     comstock_building_type |-> "comstock_building_type", comstock_sqft |-> "sqft",
     comstock_electricity_kwh |-> "kwh", electricity_kwh |-> "kwh"]

Neighborhood ==
    [total_buildings |-> 4,
     multifamily_buildings_percent_of_total |-> Rat(1, 2),
     single_family_buildings_percent_of_total |-> Rat(1, 2),
     multifamily_building_names |->
        <<"Multi-Family with 5+ Units", "Multi-Family with 2 - 4 Units", "Mobile Home">>,
     multifamily_buildings_percentages |->
        [n \in {"Multi-Family with 5+ Units", "Multi-Family with 2 - 4 Units"} |-> Rat(1, 2)]]

\* The neighbourhoods of the executions: four buildings, or eight, for which
\* every multifamily pool is drawn from more often than it has buildings.
Neighborhoods == {Neighborhood, [Neighborhood EXCEPT !.total_buildings = 8]}

\* OutputOptions, PerformanceConfig, WeatherConfig and ProfilesConfig values.
OutputChoices ==
    {[write_csv |-> TRUE, write_txt |-> TRUE, write_xlsx |-> TRUE, write_plots |-> TRUE],
     [write_csv |-> FALSE, write_txt |-> FALSE, write_xlsx |-> FALSE, write_plots |-> FALSE]}

PerformanceChoices ==
    {[fast_io |-> FALSE, prune_parquet_columns |-> TRUE],
     [fast_io |-> TRUE, prune_parquet_columns |-> FALSE],
     [fast_io |-> TRUE, prune_parquet_columns |-> TRUE]}

WeatherChoices ==
    {[enabled |-> FALSE, preferred_units |-> "C", files |-> <<>>, source_labels |-> <<>>],
     [enabled |-> TRUE, preferred_units |-> "C", files |-> <<1>>, source_labels |-> <<>>],
     [enabled |-> TRUE, preferred_units |-> "C", files |-> <<1, 2>>, source_labels |-> <<"noaa">>]}

Profiles ==
    [write_typical_day_by_month |-> TRUE, write_long_csv |-> TRUE,
     write_pivot_csv |-> TRUE, workbook_include_run0 |-> TRUE]

Configs ==
    {[seed |-> sd, sample_runs |-> n, include_public |-> pub,
      adjustment_multiplier_off |-> off, outputs |-> o, performance |-> pf,
      weather |-> w, profiles |-> Profiles, columns |-> Columns,
      multifamily_filter |-> <<"Multi-Family with 5+ Units">>,
      neighborhood |-> nb] :
        sd \in 0..MaxSeed, n \in 0..MaxRuns, pub \in BOOLEAN, off \in BOOLEAN,
        o \in OutputChoices, pf \in PerformanceChoices, w \in WeatherChoices,
        nb \in Neighborhoods}

\* The input files: whether the characteristics spreadsheets exist, and the
\* timeseries / weather files that do not.
Environments ==
    {[chars_ok |-> ok, missing |-> m, pools |-> "listed"] :
        ok \in BOOLEAN,
        m \in {{}, {<<"resstock", 2>>}, {<<"comstock", 12>>}, {<<"weather", 2>>}}}
    \cup {[chars_ok |-> TRUE, missing |-> {}, pools |-> p] :
              p \in {"no_multifamily", "no_commercial"}}

\* The characteristics spreadsheets on disk: the listed buildings, or a
\* ResStock sheet without a multifamily building, or a ComStock sheet
\* without a building of a planned type.
ResCharsFile ==
    IF fs.pools = "no_multifamily"
    THEN SelectSeq(ResChars, LAMBDA r : r.building_type = "Single-Family Detached")
    ELSE ResChars

ComCharsFile ==
    IF fs.pools = "no_commercial"
    THEN <<[bldg_id |-> 14, comstock_building_type |-> "Outpatient", sqft |-> 30000]>>
    ELSE ComChars

Blank == [res |-> EmptyFrame, com |-> EmptyFrame]

BlankHourly == [res |-> EmptyFrame, com |-> EmptyFrame, tot |-> EmptyFrame]

BlankDerived ==
    [res_d |-> EmptyFrame, com_d |-> EmptyFrame, tot_d |-> EmptyFrame,
     res_mo |-> EmptyFrame, com_mo |-> EmptyFrame, tot_mo |-> EmptyFrame]

NoSelection == [res |-> <<>>, com |-> <<>>, res_counts |-> <<>>, com_counts |-> <<>>]

NoCall == [op |-> "none"]

\* No run_pipeline call is open: the locals of a call do not exist.
Idle ==
    /\ pc = "idle" /\ i = 0 /\ rng = 0 /\ rngCreated = 0 /\ multipliers = <<>>
    /\ weather_df = <<>> /\ compiled = <<>>
    /\ sel = NoSelection /\ ts = Blank /\ merged = Blank
    /\ hourly = BlankHourly /\ derived = BlankDerived /\ avg = <<>>
    /\ sheets = {} /\ written = <<>> /\ log = <<>> /\ err = "" /\ result = <<>>

Init ==
    /\ cfg \in Configs
    /\ fs \in Environments
    /\ execNo = 0
    /\ hist = [e \in 1..MaxExecs |-> <<>>]
    /\ fn = NoCall
    /\ Idle
    /\ NoService

---------------------------------------------------------------------------
(* Pipeline orchestrator: control flow of run_pipeline                     *)

\* "for i in range(cfg.sample_runs)": the next iteration, or the code after
\* the loop.
LoopPc(n) == IF n < cfg.sample_runs THEN "select" ELSE "write_compiled"

LoopSteps ==
    {"select", "read", "merge", "resample", "join_weather", "derive", "append", "write_run"}

PcAfter_average_inside_loop(step, run) ==
    CASE step = "resolve" -> "load_chars"
      [] step = "load_chars" -> "create_rng"
      [] step = "create_rng" -> "load_weather"
      [] step = "load_weather" -> LoopPc(0)
      [] step = "select" -> "read"
      [] step = "read" -> "merge"
      [] step = "merge" -> "resample"
      [] step = "resample" -> "join_weather"
      [] step = "join_weather" -> "derive"
      [] step = "derive" -> "append"
      [] step = "append" -> "average"
      [] step = "average" -> "write_run"
      [] step = "write_run" -> LoopPc(run + 1)
      [] step = "write_compiled" -> "write_aggregates"
      [] OTHER -> "returned"

\* The statement that follows each step of run_pipeline.
PcAfter(step, run) ==
    CASE step = "resolve" -> "load_chars"
      [] step = "load_chars" -> "create_rng"
      [] step = "create_rng" -> "load_weather"
      [] step = "load_weather" -> LoopPc(0)
      [] step = "select" -> "read"
      [] step = "read" -> "merge"
      [] step = "merge" -> "resample"
      [] step = "resample" -> "join_weather"
      [] step = "join_weather" -> "derive"
      [] step = "derive" -> "append"
      [] step = "append" -> "write_run"
      [] step = "write_run" -> LoopPc(run + 1)
      [] step = "write_compiled" -> "average"
      [] step = "average" -> "write_aggregates"
      [] OTHER -> "returned"

\* A log entry: the step, the run it belongs to (-1 outside the loop), and
\* whether it completed.
Ev(step, ok) ==
    [step |-> step, run |-> IF step \in LoopSteps THEN i ELSE 0 - 1, ok |-> ok]

\* The step completed: control moves on.
Advance(step) ==
    /\ pc' = PcAfter(step, i)
    /\ i' = IF step = "write_run" THEN i + 1 ELSE i
    /\ err' = err
    /\ log' = Append(log, Ev(step, TRUE))

Propagate_swallowed(step, kind) ==
    /\ pc' = IF step \in LoopSteps THEN LoopPc(i + 1) ELSE "raised"
    /\ i' = IF step \in LoopSteps THEN i + 1 ELSE i
    /\ err' = IF step \in LoopSteps THEN err ELSE kind
    /\ log' = Append(log, Ev(step, FALSE))

\* The step raised: run_pipeline has no try/except, the exception leaves it.
Propagate(step, kind) ==
    /\ pc' = "raised"
    /\ i' = i
    /\ err' = kind
    /\ log' = Append(log, Ev(step, FALSE))

\* paths.scenario_output_dir: output_root / "scenario_runs" / run_id, the
\* run id being the time of the call.
ScenarioDir == [root |-> "scenario_runs", run_id |-> execNo]

Artifact_first_run_dir(dir, run, name, kind) ==
    [dir |-> dir, run |-> IF run > 0 THEN 0 ELSE run, name |-> name, kind |-> kind]

\* A written file: dir "run" is the directory Run-<run> of the scenario
\* output directory, "root" that directory itself, any other a subdirectory
\* of that name.
Artifact(dir, run, name, kind) == [dir |-> dir, run |-> run, name |-> name, kind |-> kind]

\* f"run_{i:02d}_hourly.png"
PlotName(run) ==
    CASE run = 0 -> "run_00_hourly.png"
      [] run = 1 -> "run_01_hourly.png"
      [] run = 2 -> "run_02_hourly.png"
      [] run = 3 -> "run_03_hourly.png"
      [] OTHER -> "run_NN_hourly.png"

unchangedInputs == <<cfg, fs, execNo, fn, apiVars>>

\* run_pipeline(cfg) is called.
Call ==
    /\ pc \in {"idle", "returned", "raised"}
    /\ execNo < MaxExecs
    /\ execNo' = execNo + 1
    /\ pc' = "resolve"
    /\ i' = 0 /\ rng' = 0 /\ rngCreated' = 0 /\ multipliers' = <<>>
    /\ weather_df' = <<>> /\ compiled' = <<>>
    /\ sel' = NoSelection /\ ts' = Blank /\ merged' = Blank
    /\ hourly' = BlankHourly /\ derived' = BlankDerived /\ avg' = <<>>
    /\ sheets' = {} /\ written' = <<>> /\ log' = <<>> /\ err' = "" /\ result' = <<>>
    /\ UNCHANGED <<cfg, fs, hist, fn, apiVars>>

\* lines 87-89: run id, resolve_paths, ensure_dir(scenario_output_dir)
ResolvePaths ==
    /\ pc = "resolve"
    /\ Advance("resolve")
    /\ UNCHANGED <<rng, rngCreated, multipliers, weather_df, compiled, sel, ts, merged,
                   hourly, derived, avg, sheets, written, result, hist, unchangedInputs>>

\* lines 92-93: read_characteristics_xlsx for ResStock and ComStock
LoadChars ==
    /\ pc = "load_chars"
    /\ IF ~fs.chars_ok THEN Propagate("load_chars", "FileNotFoundError")
       ELSE Advance("load_chars")
    /\ UNCHANGED <<rng, rngCreated, multipliers, weather_df, compiled, sel, ts, merged,
                   hourly, derived, avg, sheets, written, result, hist, unchangedInputs>>

\* lines 95-100: the generator and the multipliers
CreateRng ==
    /\ pc = "create_rng"
    /\ LET g == default_rng(cfg.seed)
           draws == RngNormal(g, cfg.sample_runs)
       IN /\ rngCreated' = rngCreated + 1
          /\ IF cfg.adjustment_multiplier_off
             THEN /\ multipliers' = [k \in 1..cfg.sample_runs |-> Num(1)]
                  /\ rng' = g
             ELSE /\ multipliers' = draws.vals
                  /\ rng' = draws.rng
    /\ Advance("create_rng")
    /\ UNCHANGED <<weather_df, compiled, sel, ts, merged, hourly, derived, avg, sheets,
                   written, result, hist, unchangedInputs>>

\* cfg.weather.source_labels[i], or f"weather_{i}"
WeatherLabel(k) ==
    IF k <= Len(cfg.weather.source_labels) THEN cfg.weather.source_labels[k]
    ELSE <<"weather_0", "weather_1", "weather_2">>[k]

\* "for p in parts: weather_df = p if weather_df is None else
\* weather_df.combine_first(p)"
RECURSIVE CombineParts(_)
CombineParts(parts) ==
    IF Len(parts) = 1 THEN parts[1]
    ELSE combine_first(CombineParts(SubSeq(parts, 1, Len(parts) - 1)), parts[Len(parts)])

\* lines 106-115: one normalized series per configured file
WeatherParts ==
    [k \in DOMAIN cfg.weather.files |->
        read_weather_csv_auto(fs, <<"weather", cfg.weather.files[k]>>,
                              cfg.weather.preferred_units, WeatherLabel(k))]

\* lines 117-122: the first file that fails ends the call; else the parts
\* are combined.
LoadParts(parts) ==
    IF \E k \in DOMAIN parts : IsRaised(parts[k])
    THEN /\ Propagate("load_weather",
                      parts[Min({k \in DOMAIN parts : IsRaised(parts[k])})].raised)
         /\ weather_df' = weather_df
    ELSE Advance("load_weather") /\ weather_df' = <<CombineParts(parts)>>

\* lines 104-122: the optional weather series
LoadWeather ==
    /\ pc = "load_weather"
    /\ IF cfg.weather.enabled /\ cfg.weather.files # <<>>
       THEN LoadParts(WeatherParts)
       ELSE Advance("load_weather") /\ weather_df' = weather_df
    /\ UNCHANGED <<rng, rngCreated, multipliers, compiled, sel, ts, merged, hourly,
                   derived, avg, sheets, written, result, hist, unchangedInputs>>

\* lines 130-143: the run directory and the building selections of run i
Selected(r, c) ==
    /\ sel' = [res |-> r.building_ids, com |-> c.building_ids,
               res_counts |-> r.counts_by_type, com_counts |-> c.counts_by_type]
    /\ rng' = c.rng
    /\ hist' = [hist EXCEPT ![execNo] =
                   Append(@, [res |-> r.building_ids, com |-> c.building_ids,
                              mult |-> multipliers[i + 1]])]

\* The commercial selection draws from the generator the residential
\* selection left behind.
SelectCommercial(r) == Selected(r, construct_neighborhood_commercial(cfg, ComCharsFile, r.rng))

Select ==
    /\ pc = "select"
    /\ SelectCommercial(construct_neighborhood_residential(cfg, ResCharsFile, rng))
    /\ Advance("select")
    /\ UNCHANGED <<rngCreated, multipliers, weather_df, compiled, ts, merged, hourly,
                   derived, avg, sheets, written, result, unchangedInputs>>

\* The columns argument of the cached read (None as <<>>).
PrunedColumns(id_col) ==
    IF cfg.performance.fast_io /\ cfg.performance.prune_parquet_columns
    THEN <<<<id_col, cfg.columns.electricity_kwh>>>>
    ELSE <<>>

\* The residential read comes first: its error hides the commercial one.
ReadBoth(res_ts, com_ts) ==
    IF IsRaised(res_ts) THEN Propagate("read", res_ts.raised) /\ ts' = ts
    ELSE IF IsRaised(com_ts) THEN Propagate("read", com_ts.raised) /\ ts' = ts
    ELSE Advance("read") /\ ts' = [res |-> res_ts, com |-> com_ts]

\* lines 138-167: the timeseries of the selected buildings
Read ==
    /\ pc = "read"
    /\ ReadBoth(read_many_building_parquets(
                    fs, [k \in DOMAIN sel.res |-> building_parquet_path("resstock", sel.res[k])],
                    PrunedColumns(cfg.columns.building_id_resstock)),
                read_many_building_parquets(
                    fs, [k \in DOMAIN sel.com |-> building_parquet_path("comstock", sel.com[k])],
                    PrunedColumns(cfg.columns.building_id_comstock)))
    /\ UNCHANGED <<rng, rngCreated, multipliers, weather_df, compiled, sel, merged,
                   hourly, derived, avg, sheets, written, result, hist, unchangedInputs>>

MergeBoth(res_m, com_m) ==
    IF IsRaised(res_m) THEN Propagate("merge", res_m.raised) /\ merged' = merged
    ELSE IF IsRaised(com_m) THEN Propagate("merge", com_m.raised) /\ merged' = merged
    ELSE /\ Advance("merge")
         /\ merged' = [res |-> ScaleCol(apply_multifamily_adjustments(cfg, res_m),
                                        cfg.columns.resstock_electricity_kwh,
                                        multipliers[i + 1]),
                       com |-> com_m]

\* lines 170-181: merge with the characteristics, multifamily adjustment,
\* per-run multiplier on the residential energy
Merge ==
    /\ pc = "merge"
    /\ MergeBoth(merge_timeseries(ts.res, CharsSubset(ResCharsFile, sel.res), ResCharsCols,
                                  cfg.columns.building_id_resstock),
                 merge_timeseries(ts.com, CharsSubset(ComCharsFile, sel.com), ComCharsCols,
                                  cfg.columns.building_id_comstock))
    /\ UNCHANGED <<rng, rngCreated, multipliers, weather_df, compiled, sel, ts, hourly,
                   derived, avg, sheets, written, result, hist, unchangedInputs>>

\* res_h_full[[col]] if col in res_h_full.columns else res_h_full
OnlyCol(df, col) == IF col \in ColNames(df) THEN SelectCols(df, {col}) ELSE df

HourlyOf(res_h, com_h) ==
    [res |-> res_h, com |-> com_h,
     tot |-> build_total(res_h, com_h, cfg.columns.resstock_electricity_kwh,
                         cfg.columns.comstock_electricity_kwh)]

\* lines 184-197: hourly series and their total
Resample ==
    /\ pc = "resample"
    /\ hourly' = HourlyOf(OnlyCol(resample_hourly_sum(merged.res),
                                  cfg.columns.resstock_electricity_kwh),
                          OnlyCol(resample_hourly_sum(merged.com),
                                  cfg.columns.comstock_electricity_kwh))
    /\ Advance("resample")
    /\ UNCHANGED <<rng, rngCreated, multipliers, weather_df, compiled, sel, ts, merged,
                   derived, avg, sheets, written, result, hist, unchangedInputs>>

Joined(r, c, t) ==
    IF IsRaised(r) \/ IsRaised(c) \/ IsRaised(t)
    THEN Propagate("join_weather", "ValueError") /\ hourly' = hourly
    ELSE Advance("join_weather") /\ hourly' = [res |-> r, com |-> c, tot |-> t]

\* lines 200-203: the optional weather join
JoinWeather ==
    /\ pc = "join_weather"
    /\ IF weather_df = <<>>
       THEN Advance("join_weather") /\ hourly' = hourly
       ELSE Joined(JoinLeft(hourly.res, weather_df[1]), JoinLeft(hourly.com, weather_df[1]),
                   JoinLeft(hourly.tot, weather_df[1]))
    /\ UNCHANGED <<rng, rngCreated, multipliers, weather_df, compiled, sel, ts, merged,
                   derived, avg, sheets, written, result, hist, unchangedInputs>>

\* lines 206-239: daily and monthly tables of the run; the temperature is
\* carried forward as daily / monthly mean and joined to each table.
SumTables(h, c) ==
    [res_d |-> agg_daily_sum(OnlyCol(h.res, c.resstock_electricity_kwh)),
     com_d |-> agg_daily_sum(OnlyCol(h.com, c.comstock_electricity_kwh)),
     tot_d |-> agg_daily_sum(h.tot),
     res_mo |-> agg_monthly_sum(OnlyCol(h.res, c.resstock_electricity_kwh)),
     com_mo |-> agg_monthly_sum(OnlyCol(h.com, c.comstock_electricity_kwh)),
     tot_mo |-> agg_monthly_sum(h.tot)]

\* lines 231-239: x = x.join(t_d) for the daily, x.join(t_m) for the monthly
JoinTemperature(d, t_d, t_m) ==
    [n \in DOMAIN d |-> JoinLeft(d[n], IF n \in {"res_d", "com_d", "tot_d"} THEN t_d ELSE t_m)]

DerivedTables(h, c) ==
    IF "outdoor_air_temperature" \in ColNames(h.tot)
    THEN JoinTemperature(SumTables(h, c),
                         agg_daily_mean(h.tot, "outdoor_air_temperature"),
                         agg_monthly_mean(h.tot, "outdoor_air_temperature"))
    ELSE SumTables(h, c)

Derived(d) ==
    IF \E k \in DOMAIN d : IsRaised(d[k])
    THEN Propagate("derive", "ValueError") /\ derived' = derived
    ELSE Advance("derive") /\ derived' = d

Derive ==
    /\ pc = "derive"
    /\ Derived(DerivedTables(hourly, cfg.columns))
    /\ UNCHANGED <<rng, rngCreated, multipliers, weather_df, compiled, sel, ts, merged,
                   hourly, avg, sheets, written, result, hist, unchangedInputs>>

AppendedCols(base, out) ==
    IF IsRaised(out)
    THEN Propagate("append", out.raised) /\ compiled' = <<base>>
    ELSE Advance("append") /\ compiled' = <<out>>

Appended(base) ==
    AppendedCols(base, add_run_cols(base, i, hourly.res, hourly.com,
                                    cfg.columns.resstock_electricity_kwh,
                                    cfg.columns.comstock_electricity_kwh))

\* lines 242-246: the compiled table takes the columns of run i
Append_ ==
    /\ pc = "append"
    /\ Appended(IF compiled = <<>> THEN build_compiled(hourly.res.index) ELSE compiled[1])
    /\ UNCHANGED <<rng, rngCreated, multipliers, weather_df, sel, ts, merged, hourly,
                   derived, avg, sheets, written, result, hist, unchangedInputs>>

\* The files of lines 249-281 for run i, in the order they are written.
RunArtifacts(run) ==
    LET c == cfg.columns
        csv(name) == Artifact("run", run, name, "per_run")
        typical == /\ cfg.profiles.write_typical_day_by_month
                   /\ c.resstock_electricity_kwh \in ColNames(hourly.res)
                   /\ c.comstock_electricity_kwh \in ColNames(hourly.com)
    IN (IF cfg.outputs.write_csv
        THEN <<csv("residential_community_load_profile_hourly.csv"),
               csv("commercial_community_load_profile_hourly.csv"),
               csv("total_community_load_profile_hourly.csv"),
               csv("residential_community_load_profile_daily.csv"),
               csv("commercial_community_load_profile_daily.csv"),
               csv("total_community_load_profile_daily.csv"),
               csv("residential_community_load_profile_monthly.csv"),
               csv("commercial_community_load_profile_monthly.csv"),
               csv("total_community_load_profile_monthly.csv")>>
        ELSE <<>>)
       \o (IF typical /\ cfg.outputs.write_csv /\ cfg.profiles.write_long_csv
           THEN <<csv("typical_day_monthly_residential_long.csv"),
                  csv("typical_day_monthly_commercial_long.csv")>>
           ELSE <<>>)
       \o (IF typical /\ cfg.outputs.write_csv /\ cfg.profiles.write_pivot_csv
           THEN <<csv("typical_day_monthly_residential_pivot.csv"),
                  csv("typical_day_monthly_commercial_pivot.csv")>>
           ELSE <<>>)
       \o (IF cfg.outputs.write_plots /\ "Total" \in ColNames(hourly.tot)
           THEN <<Artifact("plots", run, PlotName(run), "per_run")>>
           ELSE <<>>)

\* lines 249-286: the per-run outputs
WriteRun ==
    /\ pc = "write_run"
    /\ written' = written \o RunArtifacts(i)
    /\ sheets' = IF i = 0 /\ cfg.outputs.write_xlsx /\ cfg.profiles.workbook_include_run0
                 THEN sheets \cup {"run0_total_hourly", "run0_total_daily", "run0_total_monthly"}
                 ELSE sheets
    /\ Advance("write_run")
    /\ UNCHANGED <<rng, rngCreated, multipliers, weather_df, compiled, sel, ts, merged,
                   hourly, derived, avg, result, hist, unchangedInputs>>

\* lines 288-292: nothing compiled returns at once; else compiled_runs.csv
WriteCompiled ==
    /\ pc = "write_compiled"
    /\ IF compiled = <<>>
       THEN /\ pc' = "returned" /\ i' = i /\ err' = err
            /\ log' = Append(log, Ev("return", TRUE))
            /\ result' = <<ScenarioDir>>
            /\ written' = written
       ELSE /\ Advance("write_compiled")
            /\ result' = result
            /\ written' = IF cfg.outputs.write_csv
                          THEN Append(written, Artifact("root", 0 - 1, "compiled_runs.csv", "aggregate"))
                          ELSE written
    /\ UNCHANGED <<rng, rngCreated, multipliers, weather_df, compiled, sel, ts, merged,
                   hourly, derived, avg, sheets, hist, unchangedInputs>>

\* avg_h = pd.concat([res_avg, com_avg, tot_avg], axis=1) and its sums
AverageTables(a, avg_h) ==
    [res |-> a.res, com |-> a.com, tot |-> a.tot, avg_h |-> avg_h,
     avg_d |-> agg_daily_sum(avg_h), avg_mo |-> agg_monthly_sum(avg_h)]

Averages(a) == AverageTables(a, ConcatCols(a.res, a.com, a.tot))

\* lines 294-297: the cross-run average and its daily / monthly sums
Average ==
    /\ pc = "average"
    /\ avg' = <<Averages(avg_from_compiled(compiled[1]))>>
    /\ Advance("average")
    /\ UNCHANGED <<rng, rngCreated, multipliers, weather_df, compiled, sel, ts, merged,
                   hourly, derived, sheets, written, result, hist, unchangedInputs>>

\* The files of lines 299-324, in the order they are written.
AggregateArtifacts ==
    LET f(dir, name) == Artifact(dir, 0 - 1, name, "aggregate")
    IN (IF cfg.outputs.write_csv
        THEN <<f("root", "residential_load_profile_total.csv"),
               f("root", "commercial_load_profile_total.csv"),
               f("root", "total_load_profile_total.csv"),
               f("root", "merged_community_load_profile_daily_average.csv"),
               f("root", "merged_community_load_profile_monthly_average.csv")>>
        ELSE <<>>)
       \o (IF cfg.outputs.write_txt THEN <<f("root", "overview.txt")>> ELSE <<>>)
       \o (IF cfg.outputs.write_xlsx THEN <<f("excel", "summary.xlsx")>> ELSE <<>>)
       \o (IF cfg.outputs.write_plots THEN <<f("plots", "average_total_hourly.png")>> ELSE <<>>)

\* lines 299-326: the aggregate outputs, then the directory is returned
WriteAggregates ==
    /\ pc = "write_aggregates"
    /\ written' = written \o AggregateArtifacts
    /\ sheets' = IF cfg.outputs.write_xlsx
                 THEN sheets \cup {"compiled_runs", "avg_hourly", "avg_daily", "avg_monthly"}
                 ELSE sheets
    /\ result' = <<ScenarioDir>>
    /\ Advance("write_aggregates")
    /\ UNCHANGED <<rng, rngCreated, multipliers, weather_df, compiled, sel, ts, merged,
                   hourly, derived, avg, hist, unchangedInputs>>

Next ==
    \/ Call
    \/ ResolvePaths
    \/ LoadChars
    \/ CreateRng
    \/ LoadWeather
    \/ Select
    \/ Read
    \/ Merge
    \/ Resample
    \/ JoinWeather
    \/ Derive
    \/ Append_
    \/ WriteRun
    \/ WriteCompiled
    \/ Average
    \/ WriteAggregates

Spec == Init /\ [][Next]_vars

---------------------------------------------------------------------------
(* Configuration loader (config.py) and the command line (cli.py)          *)
(*                                                                         *)
(* A document is the parsed YAML mapping: the keys it has and the values   *)
(* under them ("columns.x" is key x of the columns mapping).               *)

\* The required keys, in the order load_config asks for them.
RequiredKeys ==
    <<"columns", "columns.building_id_resstock", "columns.building_id_comstock",
      "columns.resstock_building_type", "columns.resstock_units_mf", "columns.resstock_sqft",
      "columns.resstock_electricity_kwh", "columns.comstock_building_type",
      "columns.comstock_sqft", "columns.comstock_electricity_kwh", "columns.electricity_kwh",
      "total_buildings", "multifamily_buildings_percent_of_total",
      "single_family_buildings_percent_of_total", "multifamily_building_names",
      "multifamily_buildings_percentages", "state", "upgrade_num", "input_root",
      "output_root", "seed", "sample_runs", "include_public", "adjustment_multiplier_off",
      "resstock_characteristics_xlsx", "comstock_characteristics_xlsx",
      "resstock_timeseries_dir", "comstock_timeseries_dir", "multifamily_filter">>

\* _require(d, key) when the key is missing.
MissingKey(key) == Raised(<<"ValueError", "Missing required config key", key>>)

\* tol of validate_percentages: 1e-6.
Tolerance == Rat(1, 1000000)

\* abs(x - 1.0)
AbsDiffOne(x) == Rat(Abs(x.n - x.d), x.d)

\* sum(d.values())
RECURSIVE SumValues(_, _)
SumValues(d, K) ==
    IF K = {} THEN Num(0)
    ELSE RatAdd(d[CHOOSE k \in K : TRUE], SumValues(d, K \ {CHOOSE k \in K : TRUE}))

validate_percentages_mix_only(neighborhood) ==
    IF RatLess(Tolerance,
               AbsDiffOne(SumValues(neighborhood.multifamily_buildings_percentages,
                                    DOMAIN neighborhood.multifamily_buildings_percentages)))
    THEN Raised(<<"ValueError", "multifamily_buildings_percentages must sum to 1.0">>)
    ELSE <<>>

\* validate_percentages(neighborhood): None, or the error.
validate_percentages(neighborhood) ==
    IF RatLess(Tolerance,
               AbsDiffOne(SumValues(neighborhood.multifamily_buildings_percentages,
                                    DOMAIN neighborhood.multifamily_buildings_percentages)))
    THEN Raised(<<"ValueError", "multifamily_buildings_percentages must sum to 1.0">>)
    ELSE IF RatLess(Tolerance,
                    AbsDiffOne(RatAdd(neighborhood.multifamily_buildings_percent_of_total,
                                      neighborhood.single_family_buildings_percent_of_total)))
    THEN Raised(<<"ValueError",
                  "multifamily_buildings_percent_of_total + single_family_buildings_percent_of_total must sum to 1.0">>)
    ELSE <<>>

\* The position in RequiredKeys of the first key the document lacks, or 0.
FirstMissing(raw) ==
    IF \A j \in DOMAIN RequiredKeys : RequiredKeys[j] \in raw.keys THEN 0
    ELSE Min({j \in DOMAIN RequiredKeys : RequiredKeys[j] \notin raw.keys})

\* NeighborhoodConfig(...) of lines 332-339.
NeighborhoodOf(raw) ==
    [total_buildings |-> raw.values.total_buildings,
     multifamily_buildings_percent_of_total |-> raw.values.multifamily_buildings_percent_of_total,
     single_family_buildings_percent_of_total |->
         raw.values.single_family_buildings_percent_of_total,
     multifamily_building_names |-> raw.values.multifamily_building_names,
     multifamily_buildings_percentages |-> raw.values.multifamily_buildings_percentages]

\* ScenarioConfig(...) of lines 278-362: optional sections take their
\* defaults when the document has none.
ScenarioOf(raw) ==
    [seed |-> raw.values.seed, sample_runs |-> raw.values.sample_runs,
     include_public |-> raw.values.include_public,
     adjustment_multiplier_off |-> raw.values.adjustment_multiplier_off,
     outputs |-> IF "outputs" \in raw.keys THEN raw.values.outputs
                 ELSE [write_csv |-> TRUE, write_txt |-> TRUE, write_xlsx |-> TRUE,
                       write_plots |-> TRUE],
     performance |-> [fast_io |-> FALSE, prune_parquet_columns |-> TRUE],
     weather |-> [enabled |-> FALSE, preferred_units |-> "C", files |-> <<>>,
                  source_labels |-> <<>>],
     profiles |-> Profiles, columns |-> raw.values.columns,
     multifamily_filter |-> raw.values.multifamily_filter,
     neighborhood |-> NeighborhoodOf(raw)]

\* lines 364-365: validate, then return.
Validated(cfg_, check) == IF IsRaised(check) THEN check ELSE cfg_

\* load_config(path): the configuration, or the error.
load_config(raw) ==
    IF FirstMissing(raw) # 0 THEN MissingKey(RequiredKeys[FirstMissing(raw)])
    ELSE Validated(ScenarioOf(raw), validate_percentages(NeighborhoodOf(raw)))

\* The documents: complete, or lacking one key, or lacking two of which one
\* is "columns" or "seed"; with or without an outputs section; the shares
\* and the subtype mix summing to 1, to 1 within half the tolerance, or not.
MissingChoices ==
    {{}} \cup {{RequiredKeys[j]} : j \in DOMAIN RequiredKeys}
         \cup {{a, RequiredKeys[j]} : a \in {"columns", "seed"}, j \in DOMAIN RequiredKeys}

ShareChoices ==
    {<<Rat(1, 2), Rat(1, 2)>>, <<Rat(1, 2), Rat(1000001, 2000000)>>,
     <<Rat(1, 2), Rat(500002, 1000000)>>, <<Rat(1, 2), Rat(1, 4)>>}

MixChoices ==
    {[n \in {"Multi-Family with 5+ Units", "Multi-Family with 2 - 4 Units"} |-> Rat(1, 2)],
     [n \in {"Multi-Family with 5+ Units", "Multi-Family with 2 - 4 Units"} |->
         IF n = "Multi-Family with 5+ Units" THEN Rat(1, 2) ELSE Rat(999999, 2000000)],
     [n \in {"Multi-Family with 5+ Units"} |-> Rat(3, 4)],
     [n \in {} |-> Rat(1, 2)]}

Documents ==
    {[keys |-> (Range(RequiredKeys) \ M) \cup O,
      values |-> [seed |-> 0, sample_runs |-> n, include_public |-> FALSE,
                  adjustment_multiplier_off |-> TRUE,
                  outputs |-> [write_csv |-> FALSE, write_txt |-> FALSE,
                               write_xlsx |-> FALSE, write_plots |-> FALSE],
                  columns |-> Columns,
                  multifamily_filter |-> <<"Multi-Family with 5+ Units">>,
                  total_buildings |-> 4,
                  multifamily_buildings_percent_of_total |-> sh[1],
                  single_family_buildings_percent_of_total |-> sh[2],
                  multifamily_building_names |->
                      <<"Multi-Family with 5+ Units", "Multi-Family with 2 - 4 Units">>,
                  multifamily_buildings_percentages |-> mix]] :
        M \in MissingChoices, O \in SUBSET {"outputs"}, n \in 1..MaxRuns,
        sh \in ShareChoices, mix \in MixChoices}

\* "cfg = load_config(Path(args.config))" of main: what the call left.
Loaded(raw, out) ==
    /\ fn' = [op |-> "load_config", in |-> raw, out |-> out]
    /\ cfg' = IF IsRaised(out) THEN cfg ELSE out
    /\ pc' = IF IsRaised(out) THEN "rejected" ELSE "idle"
    /\ err' = IF IsRaised(out) THEN "ValueError" ELSE err
    /\ UNCHANGED <<fs, execNo, i, rng, rngCreated, multipliers, weather_df, compiled, sel, ts,
                   merged, hourly, derived, avg, sheets, written, log, result, hist,
                   apiVars>>

\* main loads the configuration.
LoadConfig ==
    /\ pc = "cli"
    /\ \E raw \in Documents : Loaded(raw, load_config(raw))

\* "out_dir = run_pipeline(cfg)" of main, reached once.
RunPipeline ==
    /\ execNo = 0
    /\ Call

\* main has parsed its arguments; no configuration is loaded yet.
InitMain ==
    /\ cfg = <<>>
    /\ fs \in Environments
    /\ execNo = 0
    /\ hist = [e \in 1..MaxExecs |-> <<>>]
    /\ fn = NoCall
    /\ NoService
    /\ pc = "cli" /\ i = 0 /\ rng = 0 /\ rngCreated = 0 /\ multipliers = <<>>
    /\ weather_df = <<>> /\ compiled = <<>>
    /\ sel = NoSelection /\ ts = Blank /\ merged = Blank
    /\ hourly = BlankHourly /\ derived = BlankDerived /\ avg = <<>>
    /\ sheets = {} /\ written = <<>> /\ log = <<>> /\ err = "" /\ result = <<>>

NextMain ==
    \/ LoadConfig
    \/ RunPipeline
    \/ ResolvePaths
    \/ LoadChars
    \/ CreateRng
    \/ LoadWeather
    \/ Select
    \/ Read
    \/ Merge
    \/ Resample
    \/ JoinWeather
    \/ Derive
    \/ Append_
    \/ WriteRun
    \/ WriteCompiled
    \/ Average
    \/ WriteAggregates

SpecMain == InitMain /\ [][NextMain]_vars

---------------------------------------------------------------------------
(* The library functions called on their own                               *)
(*                                                                         *)
(* fn records the last call: the function, its arguments and what it       *)
(* returned.  The arguments are drawn from bounded sets of tables.         *)

MaxLen == 3

\* The steps (in hours) between the timestamps of an input series: hourly,
\* daily, every other day.
StepHours == {1, HoursPerDay, 2 * HoursPerDay}

\* Where an input series starts: 2020-01-01 00:00 and 2020-01-31 23:00.
SeriesStarts == {0, T0}

CellChoices == {NaN, Some(Num(1)), Some(Num(2))}

\* A one-column table with n rows from start on, step hours apart.
SeriesFrame(start, step, col, cells) ==
    Frame([k \in DOMAIN cells |-> start + (k - 1) * step * MinPerHour],
          [c \in {col} |-> cells])

\* The hourly tables given to the daily / monthly sums; the last one is the
\* table of tests/test_aggregations.py: 48 hourly rows of 1.0.
HourlyInputs ==
    {SeriesFrame(st, sp, "kwh", cells) :
        st \in SeriesStarts, sp \in StepHours,
        cells \in UNION {[1..n -> CellChoices] : n \in 1..MaxLen}}
    \cup {SeriesFrame(0, 1, "kwh", [k \in 1..(2 * HoursPerDay) |-> Some(Num(1))])}

\* The timestamps the sector tables are indexed by.
Grid == [k \in 1..MaxLen |-> T0 + (k - 1) * MinPerHour]

\* The ascending sequences over the subsets of the grid.
GridIndexes == {SortedSeq({Grid[k] : k \in K}) : K \in SUBSET (1..MaxLen)}

\* Sector tables for build_total: with the energy column (each value v, or
\* v plus the row number), with another column only, or pd.DataFrame().
SectorInputs ==
    {Frame(idx, [c \in {col} |-> [k \in DOMAIN idx |-> Some(Num(v + r * k))]]) :
        idx \in GridIndexes \ {<<>>}, col \in {"kwh", "other"}, v \in {1, 2}, r \in {0, 1}}
    \cup {EmptyFrame}

\* Column values of a compiled table: all missing, constant 2.0, constant
\* 4.0, or 2.0 with every second row missing.
ColPattern(kind, n) ==
    [k \in 1..n |->
        CASE kind = "nan" -> NaN
          [] kind = "two" -> Some(Num(2))
          [] kind = "four" -> Some(Num(4))
          [] OTHER -> IF k % 2 = 1 THEN Some(Num(2)) ELSE NaN]

ColSets ==
    {{}, {RunCol("Residential", 0)}, {RunCol("Commercial", 0)},
     {RunCol("Residential", 0), RunCol("Residential", 1)},
     {RunCol("Residential", 0), RunCol("Commercial", 0)},
     {RunCol("Residential", 0), RunCol("Residential", 1),
      RunCol("Commercial", 0), RunCol("Commercial", 1)}}

CompiledInputs ==
    UNION {{Frame(SubSeq(Grid, 1, n), [c \in C |-> ColPattern(kinds[c], n)]) :
               n \in 1..MaxLen, kinds \in [C -> {"nan", "two", "four", "mixed"}]} :
           C \in ColSets}

\* The empty tables: pd.DataFrame(), a table with the energy column and no
\* rows, a table with rows and no columns (DataFrame.empty holds for each).
EmptyInputs ==
    {EmptyFrame, Frame(<<>>, [c \in {"kwh"} |-> <<>>]), Frame(SubSeq(Grid, 1, 1), <<>>)}

\* Hourly sector tables for add_run_cols, empty ones included.
RunInputs ==
    {Frame(idx, [c \in {"kwh"} |-> [k \in DOMAIN idx |-> Some(Num(v))]]) :
        idx \in GridIndexes, v \in {1, 2}}
    \cup EmptyInputs

\* Compiled tables before a run is added: fresh from build_compiled, or
\* holding the columns of run 0.
CompiledBefore ==
    {build_compiled(idx) : idx \in GridIndexes}
    \cup {Frame(SubSeq(Grid, 1, n),
                [c \in {RunCol("Residential", 0), RunCol("Commercial", 0)} |->
                    ColPattern("two", n)]) : n \in 1..MaxLen}

\* A compiled table with the columns of run 0 and no rows.
NoRowsCompiled ==
    Frame(<<>>, [c \in {RunCol("Residential", 0), RunCol("Commercial", 0)} |-> <<>>])

\* An hourly series (one column of a table); datetime tells whether its
\* index is a DatetimeIndex.
SeriesOf(t, col, datetime) == [index |-> t.index, vals |-> t.cols[col], datetime |-> datetime]

SeriesInputs ==
    {SeriesOf(t, "kwh", TRUE) : t \in HourlyInputs}
    \cup {[index |-> <<>>, vals |-> <<>>, datetime |-> d] : d \in BOOLEAN}

\* Candidate pools and sample sizes for _sample.
Pools == {[k \in 1..n |-> 100 + k] : n \in 0..MaxLen}

SampleSizes == (0 - 1)..(MaxLen + 1)

RngStates == 0..15

\* The call and what it returned.
CallFn(op, in, out) ==
    /\ fn' = [op |-> op, in |-> in, out |-> out]
    /\ UNCHANGED pipelineVars

\* The caller has taken the result.
FnReturn ==
    /\ fn # NoCall
    /\ fn' = NoCall
    /\ UNCHANGED pipelineVars

FnResampleHourly ==
    /\ fn = NoCall
    /\ \E t \in HourlyInputs \cup EmptyInputs :
           CallFn("resample_hourly_sum", [df |-> t], resample_hourly_sum(t))

FnDailySum ==
    /\ fn = NoCall
    /\ \E t \in HourlyInputs \cup EmptyInputs :
           CallFn("agg_daily_sum", [df |-> t], agg_daily_sum(t))

FnMonthlySum ==
    /\ fn = NoCall
    /\ \E t \in HourlyInputs \cup EmptyInputs :
           CallFn("agg_monthly_sum", [df |-> t], agg_monthly_sum(t))

FnDailyMean ==
    /\ fn = NoCall
    /\ \E t \in HourlyInputs \cup EmptyInputs :
           CallFn("agg_daily_mean", [df |-> t], agg_daily_mean(t, "kwh"))

FnMonthlyMean ==
    /\ fn = NoCall
    /\ \E t \in HourlyInputs \cup EmptyInputs :
           CallFn("agg_monthly_mean", [df |-> t], agg_monthly_mean(t, "kwh"))

FnBuildTotal ==
    /\ fn = NoCall
    /\ \E r \in SectorInputs \cup EmptyInputs, c \in SectorInputs \cup EmptyInputs :
           CallFn("build_total", [res_h |-> r, com_h |-> c], build_total(r, c, "kwh", "kwh"))

FnAddRunCols ==
    /\ fn = NoCall
    /\ \E t \in CompiledBefore, run \in 0..1, r \in RunInputs, c \in RunInputs :
           CallFn("add_run_cols", [compiled |-> t, run |-> run, res_h |-> r, com_h |-> c],
                  add_run_cols(t, run, r, c, "kwh", "kwh"))

FnAvgFromCompiled ==
    /\ fn = NoCall
    /\ \E t \in CompiledInputs \cup {EmptyFrame, NoRowsCompiled} :
           CallFn("avg_from_compiled", [compiled |-> t], avg_from_compiled(t))

\* Hourly series that cover whole days: one or two days from 1 January or
\* from 31 January (so that the second day is in February), the first day
\* holding 1.0 and the second 3.0, with the hours in M missing on the days
\* in D.  The first one is the series of tests/test_profiles.py cut to a day.
WholeDayStarts == {0, T0 - (HoursPerDay - 1) * MinPerHour}

WholeDayCell(k, M, D) ==
    IF (k - 1) % HoursPerDay \in M /\ (k - 1) \div HoursPerDay \in D
    THEN NaN
    ELSE Some(Num(1 + 2 * ((k - 1) \div HoursPerDay)))

WholeDayInputs ==
    {SeriesOf(SeriesFrame(st, 1, "kwh", [k \in 1..(d * HoursPerDay) |-> WholeDayCell(k, M, D)]),
              "kwh", TRUE) :
        st \in WholeDayStarts, d \in 1..2, M \in SUBSET {0, 5, 23}, D \in {{0}, {1}, {0, 1}}}

FnTypicalDay ==
    /\ fn = NoCall
    /\ \E x \in SeriesInputs \cup WholeDayInputs :
           CallFn("typical_day_monthly", [hourly_series |-> x],
                  typical_day_monthly(x, "residential"))

FnSample ==
    /\ fn = NoCall
    /\ \E g \in RngStates, items \in Pools, k \in SampleSizes :
           CallFn("_sample", [rng |-> g, items |-> items, k |-> k], sample(g, items, k))

\* Neighborhood mixes for the building selector.  The subtype fractions
\* (in quarters) are keyed by configured names and sum to 1.
MaxBuildings == 6

MultifamilyNames ==
    {<<"Multi-Family with 5+ Units", "Multi-Family with 2 - 4 Units">>,
     <<"Multi-Family with 5+ Units", "Multi-Family with 2 - 4 Units", "Mobile Home">>}

SubtypeMixes(names) ==
    {m \in UNION {[K -> {Rat(q, 4) : q \in 0..4}] : K \in SUBSET Range(names)} :
        /\ DOMAIN m # {}
        /\ SumSeq([j \in DOMAIN names |->
                      IF names[j] \in DOMAIN m THEN (4 * m[names[j]].n) \div m[names[j]].d
                      ELSE 0]) = 4}

NeighborhoodInputs ==
    UNION {{[total_buildings |-> t,
             multifamily_buildings_percent_of_total |-> Rat(mf, 4),
             single_family_buildings_percent_of_total |-> Rat(4 - mf, 4),
             multifamily_building_names |-> names,
             multifamily_buildings_percentages |-> m] :
                t \in 0..MaxBuildings, mf \in {0, 1, 2, 4}, m \in SubtypeMixes(names)} :
           names \in MultifamilyNames}

\* ResStock characteristics tables: the pipeline's, one with a mobile home,
\* one without a building of 2 - 4 units.
ResCharsInputs ==
    {ResChars,
     ResChars \o <<[bldg_id |-> 5, building_type |-> "Mobile Home", units |-> 1, sqft |-> 700]>>,
     SelectSeq(ResChars, LAMBDA r : r.building_type # "Multi-Family with 2 - 4 Units")}

\* ComStock characteristics tables: the pipeline's, one with two more
\* types, and one without a large office.
ComCharsInputs ==
    {ComChars,
     ComChars \o <<[bldg_id |-> 14, comstock_building_type |-> "MediumOffice", sqft |-> 9000],
                   [bldg_id |-> 15, comstock_building_type |-> "SmallHotel", sqft |-> 8000]>>,
     SelectSeq(ComChars, LAMBDA r : r.comstock_building_type # "LargeOffice")}

\* The neighborhood mixes the commercial selection is called with.
CommercialMixes ==
    {n \in NeighborhoodInputs :
        /\ n.total_buildings \in {0, MaxBuildings}
        /\ n.multifamily_buildings_percent_of_total \in {Num(0), Rat(1, 2)}
        /\ Len(n.multifamily_building_names) = 2
        /\ DOMAIN n.multifamily_buildings_percentages = Range(n.multifamily_building_names)}

SelectorRngStates == {0, 5, 10, 15}

FnResidential ==
    /\ fn = NoCall
    /\ \E n \in NeighborhoodInputs, chars \in ResCharsInputs, g \in SelectorRngStates :
           CallFn("construct_neighborhood_residential",
                  [cfg |-> [cfg EXCEPT !.neighborhood = n], chars |-> chars, rng |-> g],
                  construct_neighborhood_residential([cfg EXCEPT !.neighborhood = n], chars, g))

FnCommercial ==
    /\ fn = NoCall
    /\ \E n \in CommercialMixes, pub \in BOOLEAN, chars \in ComCharsInputs,
          g \in SelectorRngStates :
           CallFn("construct_neighborhood_commercial",
                  [cfg |-> [cfg EXCEPT !.neighborhood = n, !.include_public = pub],
                   chars |-> chars, rng |-> g],
                  construct_neighborhood_commercial(
                      [cfg EXCEPT !.neighborhood = n, !.include_public = pub], chars, g))

\* Rows of a merged residential table: a multifamily building of the
\* filter, a single-family building, a multifamily building whose unit
\* count is missing, and a row without characteristics.
MergedRowKinds ==
    {[building_type |-> Some("Multi-Family with 5+ Units"), units |-> Some(Num(4)),
      kwh |-> Some(Num(3)), sqft |-> Some(Num(900))],
     [building_type |-> Some("Single-Family Detached"), units |-> Some(Num(3)),
      kwh |-> Some(Num(5)), sqft |-> Some(Num(2000))],
     [building_type |-> Some("Multi-Family with 5+ Units"), units |-> NaN,
      kwh |-> Some(Num(2)), sqft |-> Some(Num(800))],
     [building_type |-> NaN, units |-> NaN, kwh |-> Some(Num(1)), sqft |-> NaN]}

\* The columns the multifamily adjustment reads.
AdjustColumns == {"building_type", "units", "kwh", "sqft"}

\* Merged tables of up to MaxLen rows holding any of those columns.
MergedInputs ==
    {Frame([k \in DOMAIN rows |-> T0 + (k - 1) * MinPerHour],
           [c \in C |-> [k \in DOMAIN rows |-> rows[k][c]]]) :
        rows \in UNION {[1..n -> MergedRowKinds] : n \in 0..MaxLen},
        C \in SUBSET AdjustColumns}

FnAdjust ==
    /\ fn = NoCall
    /\ \E df \in MergedInputs :
           CallFn("apply_multifamily_adjustments", [cfg |-> cfg, df |-> df],
                  apply_multifamily_adjustments(cfg, df))

\* Weather CSV files: up to MaxLen rows half an hour or an hour apart,
\* temperatures around the two thresholds of the unit heuristic or not
\* numeric, with or without a datetime / a temperature column; and a file
\* whose first datetime does not parse.
TempChoices == {NaN} \cup {Some(Num(v)) : v \in {10, 12, 34, 35, 45, 46}}

WeatherFileInputs ==
    {[dt_col |-> d, temp_col |-> t,
      rows |-> [k \in DOMAIN temps |->
                   [dt |-> Some(T0 + (k - 1) * step), temp |-> temps[k]]]] :
        d \in BOOLEAN, t \in BOOLEAN, step \in {30, MinPerHour},
        temps \in UNION {[1..n -> TempChoices] : n \in 1..MaxLen}}
    \cup {[dt_col |-> TRUE, temp_col |-> TRUE,
           rows |-> <<[dt |-> NaN, temp |-> Some(Num(90))],
                      [dt |-> Some(T0), temp |-> Some(Num(46))]>>]}

UnitInputs == {"C", "F", " f ", "K"}

FnWeather ==
    /\ fn = NoCall
    /\ \E f \in WeatherFileInputs, u \in UnitInputs, l \in {"", "noaa"} :
           CallFn("read_weather_csv_auto",
                  [file |-> f, preferred_units |-> u, source_label |-> l],
                  WeatherOfFile(f, UpperStrip(u), l))

\* The hourly series of weather source p: consecutive hours of the grid,
\* each holding the temperature 10 * p or nothing, labelled with the source.
SourceInputs(p) ==
    {WeatherLabelled(
         Frame(SubSeq(Grid, lo, hi),
               [c \in {"outdoor_air_temperature"} |->
                   [k \in 1..(hi - lo + 1) |-> IF lo + k - 1 \in V THEN Some(Num(10 * p)) ELSE NaN]]),
         <<"weather_0", "weather_1", "weather_2">>[p]) :
        lo \in 1..MaxLen, hi \in 1..MaxLen, V \in SUBSET (1..MaxLen)} \ {EmptyFrame}

\* One to three configured sources; a third one covers the whole grid.
PartsInputs ==
    {<<a>> : a \in SourceInputs(1)}
    \cup {<<a, b>> : a \in SourceInputs(1), b \in SourceInputs(2)}
    \cup {<<a, b, WeatherLabelled(
                      Frame(Grid, [c \in {"outdoor_air_temperature"} |->
                                      [k \in 1..MaxLen |-> Some(Num(30))]]),
                      "weather_2")>> : a \in SourceInputs(1), b \in SourceInputs(2)}

FnCombineWeather ==
    /\ fn = NoCall
    /\ \E parts \in PartsInputs :
           CallFn("combine_weather", [parts |-> parts], CombineParts(parts))

\* No run_pipeline call is made: one configuration, the functions on their own.
InitFn ==
    /\ cfg = CHOOSE x \in Configs :
                 x.sample_runs = 1 /\ x.seed = 0 /\ x.neighborhood = Neighborhood
    /\ fs = [chars_ok |-> TRUE, missing |-> {}, pools |-> "listed"]
    /\ execNo = 0
    /\ hist = [e \in 1..MaxExecs |-> <<>>]
    /\ fn = NoCall
    /\ Idle
    /\ NoService

NextFn ==
    \/ FnResampleHourly
    \/ FnDailySum
    \/ FnMonthlySum
    \/ FnDailyMean
    \/ FnMonthlyMean
    \/ FnBuildTotal
    \/ FnAddRunCols
    \/ FnAvgFromCompiled
    \/ FnTypicalDay
    \/ FnSample
    \/ FnResidential
    \/ FnCommercial
    \/ FnAdjust
    \/ FnWeather
    \/ FnCombineWeather
    \/ FnReturn

SpecFn == InitFn /\ [][NextFn]_vars

---------------------------------------------------------------------------
(* The threaded read (io.py, read_many_building_parquets_cached)           *)
(*                                                                         *)
(* The call is open in fn while its worker threads read: the main thread   *)
(* submits one task per distinct path, the pool's threads take the tasks   *)
(* in submission order, finish them in any order, and the main thread      *)
(* collects the finished ones as they complete.                            *)

CachedOp == "read_many_building_parquets_cached"

\* list(dict.fromkeys(path_list)): the first occurrences, in order.
RECURSIVE UniquePaths(_)
UniquePaths(path_list) ==
    IF path_list = <<>> THEN <<>>
    ELSE IF path_list[Len(path_list)] \in Range(SubSeq(path_list, 1, Len(path_list) - 1))
    THEN UniquePaths(SubSeq(path_list, 1, Len(path_list) - 1))
    ELSE Append(UniquePaths(SubSeq(path_list, 1, Len(path_list) - 1)), path_list[Len(path_list)])

\* cache[p] of the dict kept as its (key, value) pairs in insertion order.
CacheKeys(cache) == {cache[k][1] : k \in DOMAIN cache}

CacheGet(cache, p) == cache[CHOOSE k \in DOMAIN cache : cache[k][1] = p][2]

CachedFrames_completion_order(cache, path_list) == [k \in DOMAIN cache |-> cache[k][2]]

\* dfs = [cache[p] for p in path_list]
CachedFrames(cache, path_list) == [k \in DOMAIN path_list |-> CacheGet(cache, path_list[k])]

\* The calls: up to MaxLen paths over three buildings, duplicates included,
\* with none, one or two of the files missing, one or two worker threads,
\* all columns or two of them.
PathInputs ==
    UNION {[1..n -> {building_parquet_path("resstock", b) : b \in 1..3}] : n \in 0..MaxLen}

MissingInputs ==
    {{}, {building_parquet_path("resstock", 2)},
     {building_parquet_path("resstock", 2), building_parquet_path("resstock", 3)}}

ColumnInputs == {<<>>, <<<<"bldg_id", "kwh">>>>}

CachedOpen == "pc" \in DOMAIN fn

CachedCall(in) ==
    IF in.paths = <<>>
    THEN [op |-> CachedOp, in |-> in, out |-> EmptyFrame, reads |-> <<>>]
    ELSE [op |-> CachedOp, in |-> in, pc |-> "collect",
          queued |-> UniquePaths(in.paths), running |-> {}, done |-> <<>>,
          cache |-> <<>>, raised |-> <<>>,
          reads |-> [k \in DOMAIN UniquePaths(in.paths) |-> 0]]

\* lines 101-110: the call, its early return, the submission of the tasks.
ReadCached ==
    /\ fn = NoCall
    /\ \E paths \in PathInputs, missing \in MissingInputs, w \in 1..2, columns \in ColumnInputs :
           fn' = CachedCall([files |-> [chars_ok |-> TRUE, missing |-> missing],
                             paths |-> paths, max_workers |-> w, columns |-> columns])
    /\ UNCHANGED pipelineVars

PositionOf(seq, x) == CHOOSE k \in DOMAIN seq : seq[k] = x

\* A free thread of the pool takes the oldest task and calls
\* read_building_parquet.
WorkerTake ==
    /\ CachedOpen
    /\ fn.queued # <<>>
    /\ Cardinality(fn.running) < fn.in.max_workers
    /\ fn' = [fn EXCEPT !.queued = Tail(@),
                        !.running = @ \cup {Head(fn.queued)},
                        !.reads[PositionOf(UniquePaths(fn.in.paths), Head(fn.queued))] = @ + 1]
    /\ UNCHANGED pipelineVars

\* A running read ends, with a table or with FileNotFoundError.
WorkerFinish ==
    /\ CachedOpen
    /\ \E p \in fn.running :
           fn' = [fn EXCEPT !.running = @ \ {p},
                            !.done = Append(@, <<p, read_building_parquet(fn.in.files, p,
                                                                          fn.in.columns)>>)]
    /\ UNCHANGED pipelineVars

\* lines 111-112: as_completed hands over a finished future; fut.result()
\* is stored or raises.
Collect ==
    /\ CachedOpen
    /\ fn.pc = "collect"
    /\ \E k \in DOMAIN fn.done :
           /\ fn.done[k][1] \notin CacheKeys(fn.cache)
           /\ fn' = IF IsRaised(fn.done[k][2])
                    THEN [fn EXCEPT !.pc = "shutdown", !.raised = <<fn.done[k][2]>>]
                    ELSE [fn EXCEPT !.cache = Append(@, fn.done[k])]
    /\ UNCHANGED pipelineVars

\* lines 114-115: every future was collected; the tables are put together.
Assemble ==
    /\ CachedOpen
    /\ fn.pc = "collect"
    /\ CacheKeys(fn.cache) = Range(fn.in.paths)
    /\ fn' = [op |-> CachedOp, in |-> fn.in, reads |-> fn.reads,
              out |-> ConcatRows(CachedFrames(fn.cache, fn.in.paths))]
    /\ UNCHANGED pipelineVars

\* The exception leaves the with block: the executor is shut down, which
\* waits for the tasks still queued or running, and the exception leaves
\* the function.
RaiseAfterShutdown ==
    /\ CachedOpen
    /\ fn.pc = "shutdown"
    /\ fn.queued = <<>>
    /\ fn.running = {}
    /\ fn' = [op |-> CachedOp, in |-> fn.in, reads |-> fn.reads, out |-> fn.raised[1]]
    /\ UNCHANGED pipelineVars

\* The sequential read of the same paths, for comparison.
ReadSequential ==
    /\ fn = NoCall
    /\ \E paths \in PathInputs, missing \in MissingInputs :
           CallFn("read_many_building_parquets",
                  [files |-> [chars_ok |-> TRUE, missing |-> missing], paths |-> paths],
                  read_many_building_parquets([chars_ok |-> TRUE, missing |-> missing],
                                              paths, <<>>))

ReadReturn ==
    /\ ~CachedOpen
    /\ FnReturn

NextRead ==
    \/ ReadCached
    \/ WorkerTake
    \/ WorkerFinish
    \/ Collect
    \/ Assemble
    \/ RaiseAfterShutdown
    \/ ReadSequential
    \/ ReadReturn

SpecRead == InitFn /\ [][NextRead]_vars

---------------------------------------------------------------------------
(* The service (api/microgrid_api): configs, runs and the run worker       *)
(*                                                                         *)
(* Each request handler runs in one database transaction and is one step;  *)
(* of the answers only those of POST /runs are kept.                       *)
(* A worker thread is a loop of four positions: it polls for the oldest    *)
(* queued run, marks it running, executes it (three mock steps, or the     *)
(* pipeline process), and records the outcome.  The log lines a process    *)
(* writes are left out; they change log_text and progress_message only.    *)

MaxConfigs == 1

MaxSubmits == 2

YamlTexts == {"x: 1", "x: 2"}

\* MICROGRID_RUNNER_MODE
RunnerModes == {"mock", "subprocess"}

\* The service as deployed: empty tables, no worker thread, n callers of
\* Worker.start that have not called yet.
ServiceInit(n) ==
    /\ configs = <<>> /\ runs = <<>>
    /\ worker \in {[thread |-> <<>>, stop |-> FALSE, mode |-> m] : m \in RunnerModes}
    /\ starters = [c \in 1..n |-> "idle"]
    /\ wthreads = <<>>
    /\ http = [op |-> "none"]

\* Requests are served once the startup handler has returned.
Serving == starters[1] = "returned"

\* Worker.start, lines 111-112: "if self._thread is not None: return"
StartCheck ==
    /\ \E c \in DOMAIN starters :
           /\ starters[c] \in {"idle", "returned"}
           /\ starters' = [starters EXCEPT ![c] = IF worker.thread # <<>> THEN "returned"
                                                  ELSE "checked"]
    /\ UNCHANGED <<configs, runs, worker, wthreads, http, coreVars>>

\* Worker.start, lines 129-130: the thread is created, stored and started.
StartThread ==
    /\ \E c \in DOMAIN starters :
           /\ starters[c] = "checked"
           /\ starters' = [starters EXCEPT ![c] = "returned"]
    /\ wthreads' = Append(wthreads, [pc |-> "poll", run |-> 0, step |-> 0, config_yaml |-> <<>>])
    /\ worker' = [worker EXCEPT !.thread = <<Len(wthreads) + 1>>]
    /\ UNCHANGED <<configs, runs, http, coreVars>>

\* Worker.stop
Stop ==
    /\ ~worker.stop
    /\ worker' = [worker EXCEPT !.stop = TRUE]
    /\ UNCHANGED <<configs, runs, starters, wthreads, http, coreVars>>

\* POST /configs
CreateConfig ==
    /\ Serving
    /\ Len(configs) < MaxConfigs
    /\ \E y \in YamlTexts : configs' = Append(configs, y)
    /\ UNCHANGED <<runs, worker, starters, wthreads, http, coreVars>>

\* PUT /configs/{config_id}; payload.yaml_text is <<>> (None) or <<text>>.
\* An unknown id is answered 404 and changes nothing.
update_config(config_id, yaml_text) ==
    IF config_id \notin DOMAIN configs \/ yaml_text = <<>> THEN configs
    ELSE [configs EXCEPT ![config_id] = yaml_text[1]]

UpdateConfig ==
    /\ Serving
    /\ \E id \in 1..(MaxConfigs + 1), y \in {<<>>} \cup {<<t>> : t \in YamlTexts} :
           configs' = update_config(id, y)
    /\ UNCHANGED <<runs, worker, starters, wthreads, http, coreVars>>

\* Run(run_id=..., config_id=cfg.id, status="queued"), log_text = "".
\* submitted_yaml is not a column: it records the text the config had when
\* the run was created.
NewRun(config_id) ==
    [run_id |-> Len(runs) + 1, config_id |-> config_id, status |-> "queued",
     started_at |-> FALSE, finished_at |-> FALSE, error_message |-> FALSE,
     progress_current |-> 0, submitted_yaml |-> configs[config_id]]

\* POST /runs
create_run(config_id) ==
    IF config_id \notin DOMAIN configs
    THEN /\ http' = [op |-> "POST /runs", id |-> config_id, status |-> 404]
         /\ runs' = runs
    ELSE /\ Len(runs) < MaxSubmits
         /\ runs' = Append(runs, NewRun(config_id))
         /\ http' = [op |-> "POST /runs", id |-> config_id, status |-> 200]

CreateRun ==
    /\ Serving
    /\ \E id \in 1..(MaxConfigs + 1) : create_run(id)
    /\ UNCHANGED <<configs, worker, starters, wthreads, coreVars>>

\* db.query(Run).filter(Run.status == "queued").order_by(created_at).first()
FirstQueued_not_running ==
    IF \E r \in DOMAIN runs : runs[r].status # "running"
    THEN {Min({r \in DOMAIN runs : runs[r].status # "running"})}
    ELSE {}

FirstQueued ==
    IF \E r \in DOMAIN runs : runs[r].status = "queued"
    THEN {Min({r \in DOMAIN runs : runs[r].status = "queued"})}
    ELSE {}

\* Worker loop, lines 115-125: the thread ends when stopped, sleeps when
\* nothing is queued, else holds the oldest queued run.
Poll ==
    /\ \E t \in DOMAIN wthreads :
           /\ wthreads[t].pc = "poll"
           /\ worker.stop \/ FirstQueued # {}
           /\ wthreads' = [wthreads EXCEPT ![t] =
                              IF worker.stop THEN [@ EXCEPT !.pc = "exited"]
                              ELSE [@ EXCEPT !.pc = "picked",
                                             !.run = CHOOSE r \in FirstQueued : TRUE]]
    /\ UNCHANGED <<configs, runs, worker, starters, http, coreVars>>

\* run_once, lines 73-80: the run is marked running and committed.
Begin ==
    /\ \E t \in DOMAIN wthreads :
           /\ wthreads[t].pc = "picked"
           /\ runs' = [runs EXCEPT ![wthreads[t].run].status = "running",
                                   ![wthreads[t].run].started_at = TRUE]
           /\ wthreads' = [wthreads EXCEPT ![t].pc = IF worker.mode = "mock" THEN "mock"
                                                     ELSE "launch",
                                           ![t].step = 0]
    /\ UNCHANGED <<configs, worker, starters, http, coreVars>>

\* The status run_once records for an exit code.
ExitStatus_stays_running(rc) == "running"

ExitStatus(rc) == IF rc = 0 THEN "succeeded" ELSE "failed"

\* run_once, lines 93-102: status, error message and finished_at are
\* committed together; the thread goes back to polling.
Finished(t, rc) ==
    /\ runs' = [runs EXCEPT ![wthreads[t].run].status = ExitStatus(rc),
                            ![wthreads[t].run].error_message = (rc # 0),
                            ![wthreads[t].run].finished_at = TRUE]
    /\ wthreads' = [wthreads EXCEPT ![t] = [pc |-> "poll", run |-> 0, step |-> 0,
                                            config_yaml |-> <<>>]]

\* run_once, lines 84-93: three committed progress steps, then success.
MockStep ==
    /\ \E t \in DOMAIN wthreads :
           /\ wthreads[t].pc = "mock"
           /\ IF wthreads[t].step < 3
              THEN /\ runs' = [runs EXCEPT ![wthreads[t].run].progress_current =
                                               wthreads[t].step + 1]
                   /\ wthreads' = [wthreads EXCEPT ![t].step = @ + 1]
              ELSE Finished(t, 0)
    /\ UNCHANGED <<configs, worker, starters, http, coreVars>>

\* _run_subprocess, lines 27-55: the config is looked up and its yaml_text
\* written to config.yaml, and the pipeline process is started on it; an
\* exception on the way fails the run.  config_yaml is the text the process
\* of the thread was started with.
Launch ==
    /\ \E t \in DOMAIN wthreads :
           /\ wthreads[t].pc = "launch"
           /\ \/ /\ wthreads' = [wthreads EXCEPT
                                    ![t].pc = "waiting",
                                    ![t].config_yaml =
                                        <<configs[runs[wthreads[t].run].config_id]>>]
                 /\ runs' = runs
              \/ Finished(t, 1)
    /\ UNCHANGED <<configs, worker, starters, http, coreVars>>

\* _run_subprocess, lines 64-69: the process has ended with code rc.
ProcessExit ==
    /\ \E t \in DOMAIN wthreads :
           /\ wthreads[t].pc = "waiting"
           /\ \E rc \in {0, 1} : Finished(t, rc)
    /\ UNCHANGED <<configs, worker, starters, http, coreVars>>

WorkerStep == Poll \/ Begin \/ MockStep \/ Launch \/ ProcessExit

InitService(n) ==
    /\ cfg = CHOOSE x \in Configs :
                 x.sample_runs = 1 /\ x.seed = 0 /\ x.neighborhood = Neighborhood
    /\ fs = [chars_ok |-> TRUE, missing |-> {}, pools |-> "listed"]
    /\ execNo = 0
    /\ hist = [e \in 1..MaxExecs |-> <<>>]
    /\ fn = NoCall
    /\ Idle
    /\ ServiceInit(n)

\* The application: the startup handler is the one caller of Worker.start.
InitApi == InitService(1)

\* The Worker object with two threads that call start.
InitWorker == InitService(2)

NextApi ==
    \/ StartCheck
    \/ StartThread
    \/ Stop
    \/ CreateConfig
    \/ UpdateConfig
    \/ CreateRun
    \/ Poll
    \/ Begin
    \/ MockStep
    \/ Launch
    \/ ProcessExit

SpecApi == InitApi /\ [][NextApi]_vars

\* The worker thread is scheduled fairly and the pipeline process ends.
SpecApiLive == InitApi /\ [][NextApi]_vars /\ WF_vars(WorkerStep)

SpecWorker == InitWorker /\ [][NextApi]_vars

---------------------------------------------------------------------------
(* Properties of run_pipeline's order of steps                             *)

\* The steps of one iteration of the loop, in the order of the loop body.
RunOrder ==
    <<"select", "read", "merge", "resample", "join_weather", "derive", "append", "write_run">>

PlaceInRun(step) == CHOOSE k \in DOMAIN RunOrder : RunOrder[k] = step

\* Step `step` of run `run` completed before position p of the log.
DoneBefore(p, step, run) ==
    \E q \in 1..(p - 1) : log[q] = [step |-> step, run |-> run, ok |-> TRUE]

\* Paths are resolved and the characteristics loaded before any step of a run.
SetupBeforeRuns ==
    \A p \in DOMAIN log :
        log[p].step \in LoopSteps =>
            DoneBefore(p, "resolve", 0 - 1) /\ DoneBefore(p, "load_chars", 0 - 1)

\* Every step of a run directly follows the completed previous step of that
\* run; run 0 starts after the setup, run r + 1 directly after run r's last step.
RunsInOrder ==
    \A p \in DOMAIN log :
        log[p].step \in LoopSteps =>
            /\ p > 1
            /\ IF log[p].step # "select"
               THEN log[p - 1] = [step |-> RunOrder[PlaceInRun(log[p].step) - 1],
                                  run |-> log[p].run, ok |-> TRUE]
               ELSE IF log[p].run = 0
               THEN log[p - 1].step \notin LoopSteps /\ log[p - 1].ok
               ELSE log[p - 1] = [step |-> "write_run", run |-> log[p].run - 1, ok |-> TRUE]

\* The cross-run average is computed after all sample_runs runs were appended.
AverageAfterAllRuns ==
    \A p \in DOMAIN log :
        log[p].step = "average" =>
            \A r \in 0..(cfg.sample_runs - 1) : DoneBefore(p, "append", r)

IsCompiledCsv(a) == a.kind = "aggregate" /\ a.name = "compiled_runs.csv"

\* C1 (as amended): the steps of run_pipeline occur in the stated order:
\* setup before any run, the steps of a run in the order of the loop body,
\* run r + 1 only after run r has finished, the cross-run average only after
\* all runs were appended; compiled_runs.csv is written after all runs were
\* appended (it is written before the average is computed), and every other
\* aggregate artifact is written only after the average has been computed.
C1_StepsInOrder ==
    /\ SetupBeforeRuns
    /\ RunsInOrder
    /\ AverageAfterAllRuns
    /\ \A k \in DOMAIN written :
          /\ (written[k].kind = "aggregate" /\ ~IsCompiledCsv(written[k])) => avg # <<>>
          /\ IsCompiledCsv(written[k]) =>
                \A r \in 0..(cfg.sample_runs - 1) : DoneBefore(Len(log) + 1, "append", r)

\* C1 as stated: the same order, and every aggregate artifact (compiled_runs.csv
\* among them) is in the output only once the average has been computed.
C1_AggregatesAfterAverage ==
    /\ SetupBeforeRuns
    /\ RunsInOrder
    /\ AverageAfterAllRuns
    /\ \A k \in DOMAIN written : written[k].kind = "aggregate" => avg # <<>>

\* An execution of two runs has returned with compiled_runs.csv and the
\* later aggregate artifacts written.
C1_Witness ==
    /\ pc = "returned" /\ cfg.sample_runs = 2 /\ avg # <<>>
    /\ \E k \in DOMAIN written : IsCompiledCsv(written[k])
    /\ \E k \in DOMAIN written : written[k].name = "overview.txt"
    /\ \E p \in DOMAIN log : log[p] = [step |-> "write_run", run |-> 1, ok |-> TRUE]

---------------------------------------------------------------------------
(* Properties of failures, of the compiled table and of the generator      *)

\* C2: a step that fails ends the execution: it is the last step executed
\* (no step of a later run follows), the exception leaves run_pipeline, no
\* cross-run average is computed, no aggregate artifact is written and no
\* directory is returned.
C2_FailurePropagates ==
    \A p \in DOMAIN log :
        ~log[p].ok =>
            /\ p = Len(log)
            /\ pc = "raised" /\ err # ""
            /\ \A q \in DOMAIN log : log[q].run <= log[p].run
            /\ avg = <<>>
            /\ \A k \in DOMAIN written : written[k].kind # "aggregate"
            /\ result = <<>>

\* Run 0 completed and wrote its files, then a timeseries file of run 1 was
\* missing.
C2_Witness ==
    /\ pc = "raised" /\ err = "FileNotFoundError"
    /\ log[Len(log)] = [step |-> "read", run |-> 1, ok |-> FALSE]
    /\ written # <<>>

\* The number of runs whose columns were appended by this execution.
RunsAppended == Cardinality({p \in DOMAIN log : log[p].step = "append" /\ log[p].ok})

\* C3: after k > 0 runs were appended the compiled table has exactly the 2k
\* columns Residential0..Residential(k-1), Commercial0..Commercial(k-1); the
\* table starts with the hourly index of run 0 and every later add_run_cols
\* leaves the index and the columns of the earlier runs unchanged.
C3_CompiledGrowsByPairs ==
    /\ [](RunsAppended > 0 =>
            /\ compiled # <<>>
            /\ ColNames(compiled[1]) =
                  {RunCol(sector, r) : sector \in {"Residential", "Commercial"},
                                       r \in 0..(RunsAppended - 1)}
            /\ \A c \in ColNames(compiled[1]) : Len(compiled[1].cols[c]) = NRows(compiled[1]))
    /\ [][(pc = "append" /\ pc' # "raised") =>
            IF compiled = <<>>
            THEN i = 0 /\ compiled'[1].index = hourly.res.index
            ELSE /\ compiled'[1].index = compiled[1].index
                 /\ \A c \in ColNames(compiled[1]) :
                       c \in ColNames(compiled'[1]) /\ compiled'[1].cols[c] = compiled[1].cols[c]]_vars

\* Two runs were appended to a compiled table with rows.
C3_Witness ==
    /\ RunsAppended = 2 /\ compiled # <<>>
    /\ NRows(compiled[1]) > 0
    /\ Cardinality(ColNames(compiled[1])) = 4

\* C10: two executions with the same seed, configuration and inputs select,
\* in every run, the same residential and commercial buildings and use the
\* same multiplier; within an execution the generator is created once.
C10_SameSeedSameRuns ==
    /\ \A e1, e2 \in 1..MaxExecs :
          \A r \in DOMAIN hist[e1] \cap DOMAIN hist[e2] : hist[e1][r] = hist[e2][r]
    /\ rngCreated <= 1
    /\ (pc \notin {"idle", "resolve", "load_chars", "create_rng", "raised"}) => rngCreated = 1

\* Two executions of two runs each have returned; the runs of an execution
\* differ from each other, the executions do not.
C10_Witness ==
    /\ execNo = 2 /\ pc = "returned" /\ ~cfg.adjustment_multiplier_off
    /\ Len(hist[1]) = 2 /\ Len(hist[2]) = 2
    /\ hist[1][1] # hist[1][2]
    /\ hist[2] = hist[1]

---------------------------------------------------------------------------
(* Properties of the aggregation engine and of the selector                *)

ZeroIfMissing(c) == IF IsNaN(c) THEN Num(0) ELSE Val(c)

\* The mean of the values row k has in the columns of a sector: NaN when the
\* row has no value there.
SectorRowMean(t, sector, k) ==
    IF \A c \in StartsWith(t, sector) : IsNaN(t.cols[c][k]) THEN NaN
    ELSE Some(RatMul(RowSum(t, StartsWith(t, sector), k),
                     Rat(1, Cardinality({c \in StartsWith(t, sector) : ~IsNaN(t.cols[c][k])}))))

\* C4: avg_from_compiled returns, at every timestamp, the mean of the
\* Residential* columns, the mean of the Commercial* columns (NaN for a
\* sector without columns), and as Total their sum with a missing side
\* counted as 0.
C4_TotalCountsMissingAsZero ==
    fn.op = "avg_from_compiled" =>
        /\ fn.out.res.index = fn.in.compiled.index
        /\ fn.out.com.index = fn.in.compiled.index
        /\ fn.out.tot.index = fn.in.compiled.index
        /\ \A k \in DOMAIN fn.in.compiled.index :
              /\ fn.out.res.cols["Residential"][k] = SectorRowMean(fn.in.compiled, "Residential", k)
              /\ fn.out.com.cols["Commercial"][k] = SectorRowMean(fn.in.compiled, "Commercial", k)
              /\ fn.out.tot.cols["Total"][k] =
                    Some(RatAdd(ZeroIfMissing(fn.out.res.cols["Residential"][k]),
                                ZeroIfMissing(fn.out.com.cols["Commercial"][k])))

\* The value a sector table has at timestamp x in its energy column: 0 when
\* the table has no such column or no such row.
EnergyAt(t, x) ==
    IF "kwh" \in ColNames(t) /\ (\E k \in DOMAIN t.index : t.index[k] = x)
    THEN ZeroIfMissing(t.cols["kwh"][CHOOSE k \in DOMAIN t.index : t.index[k] = x])
    ELSE Num(0)

EnergyStamps(t) == IF "kwh" \in ColNames(t) THEN Range(t.index) ELSE {}

EnergySum(t) == SumOver(t.cols["kwh"], DOMAIN t.index)

\* One row per bucket from the first to the last bucket of the input, each
\* holding the sum of the input's values in that bucket.
SumsPerBucket(t, o, B(_), L(_)) ==
    /\ o.index = [j \in 1..(B(t.index[Len(t.index)]) - B(t.index[1]) + 1) |->
                     L(B(t.index[1]) + j - 1)]
    /\ \A j \in DOMAIN o.index :
          o.cols["kwh"][j] =
              Some(SumOver(t.cols["kwh"], {k \in DOMAIN t.index : L(B(t.index[k])) = o.index[j]}))
    /\ EnergySum(o) = EnergySum(t)

\* C6: for a non-empty hourly series agg_daily_sum has one row per calendar
\* day holding the sum of the day's values, agg_monthly_sum one row per
\* calendar month (labelled at month end) holding the sum of the month's
\* values; both keep the overall sum; 48 hourly rows of 1.0 give two daily
\* rows of 24.0 and one monthly row of 48.0.
C6_DailyMonthlySums ==
    /\ (fn.op = "agg_daily_sum" /\ ~IsEmptyFrame(fn.in.df)) =>
          /\ SumsPerBucket(fn.in.df, fn.out, DayOf, DayLabel)
          /\ NRows(fn.in.df) = 2 * HoursPerDay =>
                fn.out.cols["kwh"] = <<Some(Num(24)), Some(Num(24))>>
    /\ (fn.op = "agg_monthly_sum" /\ ~IsEmptyFrame(fn.in.df)) =>
          /\ SumsPerBucket(fn.in.df, fn.out, MonthOf, MonthEndLabel)
          /\ NRows(fn.in.df) = 2 * HoursPerDay => fn.out.cols["kwh"] = <<Some(Num(48))>>

\* The daily sums of the 48 hourly rows of 1.0.
C6_Witness ==
    /\ fn.op = "agg_daily_sum"
    /\ NRows(fn.in.df) = 2 * HoursPerDay
    /\ fn.out.index = <<0, MinPerDay>>
    /\ fn.out.cols["kwh"] = <<Some(Num(24)), Some(Num(24))>>

\* C9: _sample with k > 0 and a non-empty pool returns exactly k identifiers,
\* each a member of the pool (also when k exceeds the pool); with k <= 0 or
\* an empty pool it returns the empty list.
C9_SampleSizeAndMembership ==
    fn.op = "_sample" =>
        IF fn.in.k > 0 /\ fn.in.items # <<>>
        THEN /\ Len(fn.out.ids) = fn.in.k
             /\ \A j \in DOMAIN fn.out.ids : fn.out.ids[j] \in Range(fn.in.items)
        ELSE fn.out.ids = <<>>

\* More identifiers than the pool has were drawn, one of them twice.
C9_Witness ==
    /\ fn.op = "_sample"
    /\ fn.in.k > Len(fn.in.items) /\ Len(fn.in.items) > 1
    /\ Len(fn.out.ids) = fn.in.k
    /\ Cardinality(Range(fn.out.ids)) > 1

---------------------------------------------------------------------------
(* Empty inputs of the aggregation engine                                  *)

TableOps ==
    {"resample_hourly_sum", "agg_daily_sum", "agg_monthly_sum", "agg_daily_mean",
     "agg_monthly_mean"}

\* The last call was an aggregation with nothing but empty inputs.
EmptyCall ==
    CASE fn.op \in TableOps -> IsEmptyFrame(fn.in.df)
      [] fn.op = "build_total" -> IsEmptyFrame(fn.in.res_h) /\ IsEmptyFrame(fn.in.com_h)
      [] fn.op = "add_run_cols" ->
            IsEmptyFrame(fn.in.compiled) /\ IsEmptyFrame(fn.in.res_h) /\ IsEmptyFrame(fn.in.com_h)
      [] fn.op = "avg_from_compiled" -> IsEmptyFrame(fn.in.compiled)
      [] fn.op = "typical_day_monthly" -> fn.in.hourly_series.index = <<>>
      [] OTHER -> FALSE

\* A table that is empty or holds no value at all.
HoldsNoValue(t) ==
    IsEmptyFrame(t) \/ \A c \in ColNames(t) : \A k \in DOMAIN t.cols[c] : IsNaN(t.cols[c][k])

\* The result of the last call (not an error) is empty.
EmptyResult ==
    CASE fn.op = "avg_from_compiled" ->
            HoldsNoValue(fn.out.res) /\ HoldsNoValue(fn.out.com) /\ HoldsNoValue(fn.out.tot)
      [] fn.op = "typical_day_monthly" -> fn.out.long_df = <<>> /\ IsEmptyFrame(fn.out.pivot)
      [] OTHER -> IsEmptyFrame(fn.out)

---------------------------------------------------------------------------
(* Weather in the per-run tables                                           *)

\* The temperature column of a derived table is the mean of the hourly
\* temperatures of each bucket.
TemperatureIsMean(name) ==
    LET T == "outdoor_air_temperature"
        d == derived[name]
        daily == name \in {"res_d", "com_d", "tot_d"}
    IN /\ T \in ColNames(d)
       /\ \A k \in DOMAIN d.index :
             d.cols[T][k] =
                 MeanOver(hourly.tot.cols[T],
                          {j \in DOMAIN hourly.tot.index :
                              IF daily THEN DayLabel(DayOf(hourly.tot.index[j])) = d.index[k]
                              ELSE MonthEndLabel(MonthOf(hourly.tot.index[j])) = d.index[k]})

\* C7: with a weather series joined, the derive step of every run completes
\* and the temperature column of each daily and monthly table of the run is
\* the mean (never the sum) of the hourly temperatures.
C7_WeatherRunsComplete ==
    weather_df # <<>> =>
        /\ \A p \in DOMAIN log : log[p].step = "derive" => log[p].ok
        /\ pc = "append" => \A name \in DOMAIN derived : TemperatureIsMean(name)
---------------------------------------------------------------------------
(* Building selection                                                      *)

\* A characteristics table has a building of the type.
HasCandidates(chars, type_col, name) == \E k \in DOMAIN chars : chars[k][type_col] = name

\* The positions of a selection holding a building of the type.
SampledOfType(ids, chars, type_col, name) ==
    {p \in DOMAIN ids : \E k \in DOMAIN chars : chars[k].bldg_id = ids[p] /\ chars[k][type_col] = name}

\* The multifamily count and the count of a subtype the configuration asks for.
MultifamilyCount(n) ==
    RoundHalfEven(n.total_buildings * n.multifamily_buildings_percent_of_total.n,
                  n.multifamily_buildings_percent_of_total.d)

SubtypeCount(n, name) ==
    IF name \in DOMAIN n.multifamily_buildings_percentages
    THEN RoundHalfEven(MultifamilyCount(n) * n.multifamily_buildings_percentages[name].n,
                       n.multifamily_buildings_percentages[name].d)
    ELSE 0

\* C11: construct_neighborhood_residential samples, for every configured
\* multifamily subtype with a candidate, round(multifamily_count * fraction)
\* identifiers with multifamily_count = round(total_buildings * multifamily
\* fraction), each of that subtype; a subtype without candidates contributes
\* none, and nothing is raised.
C11_SubtypeCounts ==
    fn.op = "construct_neighborhood_residential" =>
        /\ ~IsRaised(fn.out)
        /\ \A j \in DOMAIN fn.in.cfg.neighborhood.multifamily_building_names :
              Cardinality(SampledOfType(fn.out.building_ids, fn.in.chars, "building_type",
                                        fn.in.cfg.neighborhood.multifamily_building_names[j]))
              = IF HasCandidates(fn.in.chars, "building_type",
                                 fn.in.cfg.neighborhood.multifamily_building_names[j])
                THEN SubtypeCount(fn.in.cfg.neighborhood,
                                  fn.in.cfg.neighborhood.multifamily_building_names[j])
                ELSE 0
        /\ \A p \in DOMAIN fn.out.building_ids :
              \E j \in DOMAIN fn.in.cfg.neighborhood.multifamily_building_names :
                  p \in SampledOfType(fn.out.building_ids, fn.in.chars, "building_type",
                                      fn.in.cfg.neighborhood.multifamily_building_names[j])

\* Mobile homes were asked for and the table has none, while three buildings
\* of another subtype were sampled from its two candidates.
C11_Witness ==
    /\ fn.op = "construct_neighborhood_residential"
    /\ ~HasCandidates(fn.in.chars, "building_type", "Mobile Home")
    /\ "Mobile Home" \in Range(fn.in.cfg.neighborhood.multifamily_building_names)
    /\ SubtypeCount(fn.in.cfg.neighborhood, "Mobile Home") > 0
    /\ Cardinality(SampledOfType(fn.out.building_ids, fn.in.chars, "building_type",
                                 "Multi-Family with 5+ Units")) = 3

\* C12: when every configured building type has candidates, the residential
\* selection has total_buildings identifiers up to rounding (at most one per
\* configured subtype), and its share of multifamily identifiers is the
\* configured multifamily fraction up to the same rounding.
C12_ApproximatesPopulation ==
    (/\ fn.op = "construct_neighborhood_residential"
     /\ \A j \in DOMAIN fn.in.cfg.neighborhood.multifamily_building_names :
           HasCandidates(fn.in.chars, "building_type",
                         fn.in.cfg.neighborhood.multifamily_building_names[j])
     /\ HasCandidates(fn.in.chars, "building_type", "Single-Family Detached"))
    =>
        /\ Abs(Len(fn.out.building_ids) - fn.in.cfg.neighborhood.total_buildings)
              <= Len(fn.in.cfg.neighborhood.multifamily_building_names)
        /\ Abs(fn.in.cfg.neighborhood.multifamily_buildings_percent_of_total.d
                   * Cardinality({p \in DOMAIN fn.out.building_ids :
                                     ~(p \in SampledOfType(fn.out.building_ids, fn.in.chars,
                                                           "building_type",
                                                           "Single-Family Detached"))})
               - fn.in.cfg.neighborhood.multifamily_buildings_percent_of_total.n
                   * Len(fn.out.building_ids))
              <= fn.in.cfg.neighborhood.multifamily_buildings_percent_of_total.d
                   * Len(fn.in.cfg.neighborhood.multifamily_building_names)

\* The commercial types that are not public buildings, and the public ones.
PrivateTypes == {"LargeOffice", "MediumOffice", "RetailStandalone", "RetailStripmall", "Warehouse"}

PublicTypes == {"SmallHotel", "Hospital", "PrimarySchool", "SecondarySchool"}

\* The selection made from the same table and generator under another
\* neighborhood mix / with include_public off.
CommercialUnder(n) ==
    construct_neighborhood_commercial([fn.in.cfg EXCEPT !.neighborhood = n],
                                      fn.in.chars, fn.in.rng)

CommercialWithoutPublic ==
    construct_neighborhood_commercial([fn.in.cfg EXCEPT !.include_public = FALSE],
                                      fn.in.chars, fn.in.rng)

\* C13: the commercial selection does not depend on total_buildings or the
\* mix fractions, and include_public only adds the public types: the
\* identifiers of the other types are the ones selected without it, and
\* without it no public building is selected.
C13_FixedCommercialPlan ==
    fn.op = "construct_neighborhood_commercial" =>
        /\ \A n \in CommercialMixes : CommercialUnder(n).building_ids = fn.out.building_ids
        /\ \A t \in PrivateTypes :
              Cardinality(SampledOfType(fn.out.building_ids, fn.in.chars,
                                        "comstock_building_type", t))
              = Cardinality(SampledOfType(CommercialWithoutPublic.building_ids, fn.in.chars,
                                          "comstock_building_type", t))
        /\ SubSeq(fn.out.building_ids, 1, Len(CommercialWithoutPublic.building_ids))
              = CommercialWithoutPublic.building_ids
        /\ \A p \in DOMAIN fn.out.building_ids :
              p > Len(CommercialWithoutPublic.building_ids) <=>
                  \E t \in PublicTypes :
                      p \in SampledOfType(fn.out.building_ids, fn.in.chars,
                                          "comstock_building_type", t)
        /\ ~fn.in.cfg.include_public =>
              Len(fn.out.building_ids) = Len(CommercialWithoutPublic.building_ids)

\* With include_public a hospital was added to the offices and warehouses
\* of a neighborhood of MaxBuildings buildings.
C13_Witness ==
    /\ fn.op = "construct_neighborhood_commercial"
    /\ fn.in.cfg.include_public
    /\ fn.in.cfg.neighborhood.total_buildings = MaxBuildings
    /\ SampledOfType(fn.out.building_ids, fn.in.chars, "comstock_building_type", "Hospital") # {}
    /\ Cardinality(SampledOfType(fn.out.building_ids, fn.in.chars,
                                 "comstock_building_type", "Warehouse")) = 7

---------------------------------------------------------------------------
(* Multifamily adjustment                                                  *)

\* Row k of the adjusted table is a building of the multifamily filter.
InFilter(df, k) ==
    /\ ~IsNaN(df.cols["building_type"][k])
    /\ \E j \in DOMAIN fn.in.cfg.multifamily_filter :
          fn.in.cfg.multifamily_filter[j] = Val(df.cols["building_type"][k])

\* The product of two cells of row k, missing when one of them is.
TimesUnits(df, col, k) ==
    IF IsNaN(df.cols[col][k]) \/ IsNaN(df.cols["units"][k]) THEN NaN
    ELSE Some(RatMul(Val(df.cols[col][k]), Val(df.cols["units"][k])))

\* C14: with all required columns present, apply_multifamily_adjustments
\* multiplies the energy of every row of the multifamily filter by the row's
\* unit count and sets its adjusted square footage to sqft * units; the other
\* rows keep their energy and get sqft as adjusted square footage; sqft and
\* every other column are returned as given.
C14_MultifamilyScaled ==
    (fn.op = "apply_multifamily_adjustments" /\ AdjustColumns \subseteq ColNames(fn.in.df)) =>
        /\ ~IsRaised(fn.out)
        /\ fn.out.index = fn.in.df.index
        /\ ColNames(fn.out) = ColNames(fn.in.df) \cup {"in.sqft_adjust"}
        /\ \A c \in {"building_type", "units", "sqft"} : fn.out.cols[c] = fn.in.df.cols[c]
        /\ \A k \in DOMAIN fn.in.df.index :
              IF InFilter(fn.in.df, k)
              THEN /\ fn.out.cols["kwh"][k] = TimesUnits(fn.in.df, "kwh", k)
                   /\ fn.out.cols["in.sqft_adjust"][k] = TimesUnits(fn.in.df, "sqft", k)
              ELSE /\ fn.out.cols["kwh"][k] = fn.in.df.cols["kwh"][k]
                   /\ fn.out.cols["in.sqft_adjust"][k] = fn.in.df.cols["sqft"][k]

\* A table with a multifamily row (energy 3 * 4 units) and a single-family
\* row (energy unchanged) was adjusted.
C14_Witness ==
    /\ fn.op = "apply_multifamily_adjustments"
    /\ AdjustColumns \subseteq ColNames(fn.in.df)
    /\ NRows(fn.in.df) >= 2
    /\ fn.out.cols["kwh"][1] = Some(Num(12))
    /\ fn.out.cols["in.sqft_adjust"][1] = Some(Num(3600))
    /\ fn.out.cols["kwh"][2] = Some(Num(5))
    /\ fn.out.cols["in.sqft_adjust"][2] = Some(Num(2000))

\* C15: when a required column (building type, energy, unit count, square
\* footage) is absent, apply_multifamily_adjustments raises nothing and
\* returns a table equal to its input.
C15_MissingColumnUnchanged ==
    (fn.op = "apply_multifamily_adjustments" /\ ~(AdjustColumns \subseteq ColNames(fn.in.df))) =>
        /\ ~IsRaised(fn.out)
        /\ fn.out = fn.in.df

---------------------------------------------------------------------------
(* Configuration validation                                                *)

\* The sums of a document are within the tolerance of 1.
SumsValid(raw) ==
    /\ ~RatLess(Tolerance,
                AbsDiffOne(RatAdd(raw.values.multifamily_buildings_percent_of_total,
                                  raw.values.single_family_buildings_percent_of_total)))
    /\ ~RatLess(Tolerance,
                AbsDiffOne(SumValues(raw.values.multifamily_buildings_percentages,
                                     DOMAIN raw.values.multifamily_buildings_percentages)))

\* C16: load_config returns a configuration exactly when the document has
\* every required key and both sums are within 1e-6 of 1; a document lacking
\* a required key is rejected with an error naming a key it lacks, one with a
\* sum off by more with a ratio error; after a rejection there is no
\* configuration and the pipeline has done nothing.
C16_ConfigValidated ==
    fn.op = "load_config" =>
        /\ ~IsRaised(fn.out) <=>
              (Range(RequiredKeys) \subseteq fn.in.keys /\ SumsValid(fn.in))
        /\ ~(Range(RequiredKeys) \subseteq fn.in.keys) =>
              /\ IsRaised(fn.out)
              /\ fn.out.raised[2] = "Missing required config key"
              /\ fn.out.raised[3] \in Range(RequiredKeys) \ fn.in.keys
        /\ (Range(RequiredKeys) \subseteq fn.in.keys /\ ~SumsValid(fn.in)) =>
              /\ IsRaised(fn.out)
              /\ Len(fn.out.raised) = 2
        /\ IsRaised(fn.out) =>
              /\ cfg = <<>> /\ pc = "rejected" /\ execNo = 0
              /\ log = <<>> /\ written = <<>> /\ result = <<>>
        /\ ~IsRaised(fn.out) => cfg = fn.out

\* A document with every required key whose shares sum to 1 + 2e-6 was
\* rejected with the ratio error.
C16_Witness ==
    /\ fn.op = "load_config"
    /\ Range(RequiredKeys) \subseteq fn.in.keys
    /\ fn.in.values.single_family_buildings_percent_of_total = Rat(500002, 1000000)
    /\ IsRaised(fn.out) /\ Len(fn.out.raised) = 2
    /\ pc = "rejected"

---------------------------------------------------------------------------
(* Weather ingestion                                                       *)

\* The rows of the file read: the datetime parses (if there is a datetime
\* column) and the temperature is a number.
Parsed(file) ==
    {k \in DOMAIN file.rows :
        /\ ~IsNaN(file.rows[k].temp)
        /\ file.dt_col => ~IsNaN(file.rows[k].dt)}

\* x is a median of the parsed temperatures: at most half of them are
\* below the lower middle value lo, at most half above the upper one hi.
IsMiddle(file, lo, hi) ==
    /\ ~RatLess(Val(file.rows[hi].temp), Val(file.rows[lo].temp))
    /\ 2 * Cardinality({k \in Parsed(file) :
                           RatLess(Val(file.rows[k].temp), Val(file.rows[lo].temp))})
          < Cardinality(Parsed(file))
    /\ 2 * Cardinality({k \in Parsed(file) :
                           RatLess(Val(file.rows[hi].temp), Val(file.rows[k].temp))})
          < Cardinality(Parsed(file))
    /\ 2 * Cardinality({k \in Parsed(file) :
                           ~RatLess(Val(file.rows[lo].temp), Val(file.rows[k].temp))})
          >= Cardinality(Parsed(file))
    /\ 2 * Cardinality({k \in Parsed(file) :
                           ~RatLess(Val(file.rows[k].temp), Val(file.rows[hi].temp))})
          >= Cardinality(Parsed(file))

\* Twice the median is above (below) twice a threshold.
MedianAbove(file, x) ==
    \E lo \in Parsed(file), hi \in Parsed(file) :
        /\ IsMiddle(file, lo, hi)
        /\ RatLess(Num(2 * x), RatAdd(Val(file.rows[lo].temp), Val(file.rows[hi].temp)))

MedianBelow(file, x) ==
    \E lo \in Parsed(file), hi \in Parsed(file) :
        /\ IsMiddle(file, lo, hi)
        /\ RatLess(RatAdd(Val(file.rows[lo].temp), Val(file.rows[hi].temp)), Num(2 * x))

\* The temperature of row k in the target unit, as the claim has it.
InTargetUnit(file, unit, k) ==
    IF unit = "C" /\ MedianAbove(file, 45)
    THEN RatMul(RatAdd(Val(file.rows[k].temp), Num(0 - 32)), Rat(5, 9))
    ELSE IF unit = "F" /\ MedianBelow(file, 35)
    THEN RatAdd(RatMul(Val(file.rows[k].temp), Rat(9, 5)), Num(32))
    ELSE Val(file.rows[k].temp)

\* The sum of the target-unit temperatures of a set of rows.
RECURSIVE TargetSum(_, _, _)
TargetSum(file, unit, K) ==
    IF K = {} THEN Num(0)
    ELSE RatAdd(InTargetUnit(file, unit, CHOOSE k \in K : TRUE),
                TargetSum(file, unit, K \ {CHOOSE k \in K : TRUE}))

\* The parsed rows that fall into the hour of an output row.
RowsOfHour(file, stamp) ==
    {k \in Parsed(file) :
        IF file.dt_col THEN HourLabel(HourOf(Val(file.rows[k].dt))) = stamp ELSE TRUE}

\* C17: read_weather_csv_auto converts Fahrenheit to Celsius exactly when
\* the target unit is C and the median of the parsed temperatures is above
\* 45, Celsius to Fahrenheit exactly when the target unit is F and the median
\* is below 35, and leaves the values unchanged otherwise; the decision is
\* one per file.  Every hourly output value is the mean of the hour's
\* temperatures so converted.
C17_MedianDecidesConversion ==
    (fn.op = "read_weather_csv_auto" /\ ~IsRaised(fn.out)) =>
        \A j \in DOMAIN fn.out.index :
            LET K == RowsOfHour(fn.in.file, fn.out.index[j])
            IN IF K = {} THEN IsNaN(fn.out.cols["outdoor_air_temperature"][j])
               ELSE fn.out.cols["outdoor_air_temperature"][j] =
                        Some(RatMul(TargetSum(fn.in.file, UpperStrip(fn.in.preferred_units), K),
                                    Rat(1, Cardinality(K))))

\* The file of the test (10 and 12, an hour apart, target C) was read and
\* nothing was converted.
C17_Witness ==
    /\ fn.op = "read_weather_csv_auto"
    /\ fn.in.preferred_units = "C"
    /\ fn.in.file.dt_col /\ fn.in.file.temp_col
    /\ ~IsRaised(fn.out)
    /\ fn.out.index = <<T0, T0 + MinPerHour>>
    /\ fn.out.cols["outdoor_air_temperature"] = <<Some(Num(10)), Some(Num(12))>>

\* C18: read_weather_csv_auto fails when the file has no datetime column,
\* when it has no temperature column, and when the target unit is neither C
\* nor F.
C18_WeatherRejects ==
    (/\ fn.op = "read_weather_csv_auto"
     /\ \/ ~fn.in.file.dt_col
        \/ ~fn.in.file.temp_col
        \/ UpperStrip(fn.in.preferred_units) \notin {"C", "F"})
    => IsRaised(fn.out)

\* The sources that have a temperature at timestamp x.
SourcesWith(parts, x) ==
    {p \in DOMAIN parts :
        \E k \in DOMAIN parts[p].index :
            /\ parts[p].index[k] = x
            /\ ~IsNaN(parts[p].cols["outdoor_air_temperature"][k])}

\* The temperature source p has at timestamp x.
SourceValue(part, x) ==
    part.cols["outdoor_air_temperature"][CHOOSE k \in DOMAIN part.index : part.index[k] = x]

\* C19: the merged weather series covers the timestamps of all sources and
\* holds at each the temperature of the first configured source that has one
\* there (a later source's only where all earlier ones are missing, nothing
\* where all are missing); values of different sources are never averaged.
C19_FirstSourceWins ==
    fn.op = "combine_weather" =>
        /\ Range(fn.out.index) = UNION {Range(fn.in.parts[p].index) : p \in DOMAIN fn.in.parts}
        /\ \A k \in DOMAIN fn.out.index :
              /\ k > 1 => fn.out.index[k - 1] < fn.out.index[k]
              /\ IF SourcesWith(fn.in.parts, fn.out.index[k]) = {}
                 THEN IsNaN(fn.out.cols["outdoor_air_temperature"][k])
                 ELSE fn.out.cols["outdoor_air_temperature"][k] =
                          SourceValue(fn.in.parts[Min(SourcesWith(fn.in.parts, fn.out.index[k]))],
                                      fn.out.index[k])

\* Two sources overlap: at one hour both have a temperature and the first
\* one's is taken, at the next the first is missing and the second one's is.
C19_Witness ==
    /\ fn.op = "combine_weather"
    /\ Len(fn.in.parts) = 2
    /\ SourcesWith(fn.in.parts, Grid[1]) = {1, 2}
    /\ SourcesWith(fn.in.parts, Grid[2]) = {2}
    /\ Grid[2] \in Range(fn.in.parts[1].index)
    /\ fn.out.cols["outdoor_air_temperature"][1] = Some(Num(10))
    /\ fn.out.cols["outdoor_air_temperature"][2] = Some(Num(20))

---------------------------------------------------------------------------
(* Typical day by month                                                    *)

TypicalCall == fn.op = "typical_day_monthly" /\ ~IsRaised(fn.out)

\* The rows of the input that fall into month m and hour of day h and hold
\* a value.
ValuedAt(s, m, h) ==
    {k \in DOMAIN s.index :
        MonthNo(s.index[k]) = m /\ HourOfDay(s.index[k]) = h /\ ~IsNaN(s.vals[k])}

RECURSIVE ValueTotal(_, _)
ValueTotal(s, K) ==
    IF K = {} THEN Num(0)
    ELSE RatAdd(Val(s.vals[CHOOSE k \in K : TRUE]), ValueTotal(s, K \ {CHOOSE k \in K : TRUE}))

\* x is the mean of the values of month m and hour h: nothing if there are
\* none, else the number that gives their total when taken once per value.
IsMeanAt(x, s, m, h) ==
    IF ValuedAt(s, m, h) = {} THEN IsNaN(x)
    ELSE /\ ~IsNaN(x)
         /\ RatMul(Val(x), Num(Cardinality(ValuedAt(s, m, h)))) = ValueTotal(s, ValuedAt(s, m, h))

\* The long table has one row per (month, hour) of the input, in ascending
\* (month, hour) order under the one sector label, holding the group's mean.
LongTableRight(s, long_df) ==
    /\ {<<long_df[k].month, long_df[k].hour>> : k \in DOMAIN long_df} =
           {<<MonthNo(s.index[k]), HourOfDay(s.index[k])>> : k \in DOMAIN s.index}
    /\ \A k \in DOMAIN long_df :
          /\ long_df[k].sector = "residential"
          /\ IsMeanAt(long_df[k].mean_kwh, s, long_df[k].month, long_df[k].hour)
          /\ k > 1 => \/ long_df[k - 1].month < long_df[k].month
                      \/ /\ long_df[k - 1].month = long_df[k].month
                         /\ long_df[k - 1].hour < long_df[k].hour

\* The pivot has a row per hour and a column per month that has a mean, hours
\* ascending, each cell holding the mean of its month and hour.
PivotRight(s, pivot) ==
    /\ Range(pivot.index) =
           {HourOfDay(s.index[k]) : k \in {j \in DOMAIN s.index : ~IsNaN(s.vals[j])}}
    /\ ColNames(pivot) = {MonthNo(s.index[k]) : k \in {j \in DOMAIN s.index : ~IsNaN(s.vals[j])}}
    /\ \A j \in DOMAIN pivot.index :
          /\ j > 1 => pivot.index[j - 1] < pivot.index[j]
          /\ \A m \in ColNames(pivot) : IsMeanAt(pivot.cols[m][j], s, m, pivot.index[j])

\* The input covers whole days: consecutive hours from a midnight to the
\* hour before a midnight.
CoversWholeDays(s) ==
    /\ Len(s.index) > 0
    /\ Len(s.index) % HoursPerDay = 0
    /\ HourOfDay(s.index[1]) = 0
    /\ \A k \in 2..Len(s.index) : s.index[k] = s.index[k - 1] + MinPerHour

EveryHourValued(s) ==
    \A h \in 0..(HoursPerDay - 1) : \E k \in DOMAIN s.index :
        HourOfDay(s.index[k]) = h /\ ~IsNaN(s.vals[k])

\* C20 (as stated, in its last part): for an input covering whole days the
\* pivot's hour index is exactly 0..23.  Violated by a day whose value at
\* one hour is missing.
C20_WholeDaysSpanAllHours ==
    (TypicalCall /\ CoversWholeDays(fn.in.hourly_series)) =>
        fn.out.pivot.index = [h \in 1..HoursPerDay |-> h - 1]

\* C20 (amended): typical_day_monthly returns a long table with one row per
\* (sector, month, hour) of the input, holding the mean of the non-missing
\* values of that month and hour (missing if there are none), sorted by
\* (sector, month, hour), and a pivot with the hours that have a mean as rows,
\* ascending, and the months that have one as columns; for an input covering
\* whole days with a value at every hour of the day the hour index is
\* exactly 0..23.
C20_TypicalDay ==
    TypicalCall =>
        /\ LongTableRight(fn.in.hourly_series, fn.out.long_df)
        /\ PivotRight(fn.in.hourly_series, fn.out.pivot)
        /\ (CoversWholeDays(fn.in.hourly_series) /\ EveryHourValued(fn.in.hourly_series)) =>
               fn.out.pivot.index = [h \in 1..HoursPerDay |-> h - 1]

\* Two days from 31 January, 1.0 on the first and 3.0 on the second, hour 5
\* missing on the second: 48 long rows, a pivot of 24 hours by two months,
\* and February's hour 5 without a value.
C20_Witness ==
    /\ TypicalCall
    /\ CoversWholeDays(fn.in.hourly_series)
    /\ EveryHourValued(fn.in.hourly_series)
    /\ Len(fn.in.hourly_series.index) = 2 * HoursPerDay
    /\ Len(fn.out.long_df) = 2 * HoursPerDay
    /\ ColNames(fn.out.pivot) = {1, 2}
    /\ fn.out.pivot.index = [h \in 1..HoursPerDay |-> h - 1]
    /\ fn.out.pivot.cols[1][6] = Some(Num(1))
    /\ IsNaN(fn.out.pivot.cols[2][6])
    /\ fn.out.pivot.cols[2][7] = Some(Num(3))

\* Two days of one month: every mean is taken over two values.
C20_WitnessMean ==
    /\ TypicalCall
    /\ Len(fn.out.long_df) = HoursPerDay
    /\ \A k \in DOMAIN fn.out.long_df : fn.out.long_df[k].mean_kwh = Some(Num(2))

---------------------------------------------------------------------------
(* Threaded read                                                           *)

CachedReturned == fn.op = CachedOp /\ ~CachedOpen

\* The building of each row a read of the paths gives when every file is
\* there: the rows of the first path, then those of the second, ...
RECURSIVE RowBuildings(_)
RowBuildings(paths) ==
    IF paths = <<>> THEN <<>>
    ELSE [k \in DOMAIN BuildingRows(paths[1][2]) |-> Some(Num(paths[1][2]))]
         \o RowBuildings(Tail(paths))

\* C21: read_many_building_parquets_cached reads each distinct file exactly
\* once, whatever the order in which its threads finish, and returns the
\* tables in the requested order with one copy per occurrence, which is the
\* result of read_many_building_parquets (of its requested columns, when
\* columns are given); with a file missing it fails.
C21_CachedReadIsSequential ==
    /\ CachedOpen => \A k \in DOMAIN fn.reads : fn.reads[k] <= 1
    /\ CachedReturned =>
          /\ \A k \in DOMAIN fn.reads : fn.reads[k] = 1
          /\ Len(fn.reads) = Cardinality(Range(fn.in.paths))
          /\ fn.out = read_many_building_parquets(fn.in.files, fn.in.paths, fn.in.columns)
          /\ IF Range(fn.in.paths) \cap fn.in.files.missing # {}
             THEN fn.out = Raised("FileNotFoundError")
             ELSE fn.in.paths # <<>> =>
                      fn.out.cols["bldg_id"] = RowBuildings(fn.in.paths)

\* Building 3 was requested before building 1 and once more after it, the
\* two threads read, and the result has building 3's
\* rows, building 1's, and building 3's again.
C21_Witness ==
    /\ CachedReturned
    /\ [k \in DOMAIN fn.in.paths |-> fn.in.paths[k][2]] = <<3, 1, 3>>
    /\ fn.in.max_workers = 2
    /\ ~IsRaised(fn.out)
    /\ Len(fn.out.index) = 7
    /\ fn.out.cols["bldg_id"][1] = Some(Num(3))
    /\ fn.out.cols["bldg_id"][3] = Some(Num(1))
    /\ fn.out.cols["bldg_id"][7] = Some(Num(3))

---------------------------------------------------------------------------
(* Output directories                                                      *)

\* The artifacts the step adds.
NewlyWritten == {written'[k] : k \in (Len(written) + 1)..Len(written')}

\* The directory of an artifact below the scenario output directory.
DirOf(a) == IF a.dir = "run" THEN <<"Run-", a.run>> ELSE <<a.dir>>

IsChart(a) == a.name = PlotName(a.run)

\* C22 (as stated): every artifact written during run i, the hourly chart
\* included, is written inside Run-i.  Violated by the chart.
C22_AllInsideRunDir ==
    [][\A a \in NewlyWritten : a.kind = "per_run" => DirOf(a) = <<"Run-", i>>]_vars

\* C22 (amended): every table written during run i is written inside Run-i;
\* the hourly chart of run i is written into the directory plots that all
\* runs share, under a file name that carries i.  No two runs of one
\* execution write the same file.
C22_RunArtifactsApart ==
    [][\A a \in NewlyWritten : a.kind = "per_run" =>
           /\ pc = "write_run"
           /\ a.run = i
           /\ IF IsChart(a) THEN DirOf(a) = <<"plots">> ELSE DirOf(a) = <<"Run-", i>>
           /\ \A k \in DOMAIN written :
                  (written[k].kind = "per_run" /\ written[k].run # i) =>
                      <<DirOf(written[k]), written[k].name>> # <<DirOf(a), a.name>>]_vars

\* Two runs have written their tables and their charts: the tables are in
\* Run-0 and Run-1, the charts side by side in plots.
C22_Witness ==
    /\ \E k \in DOMAIN written :
          written[k] = Artifact("run", 0, "total_community_load_profile_hourly.csv", "per_run")
    /\ \E k \in DOMAIN written :
          written[k] = Artifact("run", 1, "typical_day_monthly_residential_pivot.csv", "per_run")
    /\ \E k \in DOMAIN written : written[k] = Artifact("plots", 0, "run_00_hourly.png", "per_run")
    /\ \E k \in DOMAIN written : written[k] = Artifact("plots", 1, "run_01_hourly.png", "per_run")

---------------------------------------------------------------------------
(* Empty selections                                                        *)

\* A run of this execution has selected its buildings, and one sector's
\* selection is empty because none of its candidate pools has a building;
\* every file is there, no weather is joined and the plain read is used.
EmptySelectionRun ==
    /\ fs.chars_ok /\ fs.missing = {} /\ fs.pools # "listed"
    /\ ~cfg.weather.enabled
    /\ ~cfg.performance.fast_io
    /\ \E k \in DOMAIN log : log[k].step = "select" /\ log[k].ok
    /\ sel.res = <<>> \/ sel.com = <<>>

\* C23: when every candidate pool of a sector is empty, so that the sector's
\* selection of a run is empty, run_pipeline raises no error and carries an
\* empty series for the sector through merge and aggregation.
C23_EmptySelectionPasses ==
    EmptySelectionRun =>
        /\ pc # "raised"
        /\ \A k \in DOMAIN log : log[k].ok

---------------------------------------------------------------------------
(* Reported counts by type                                                 *)

SelectionCall ==
    fn.op \in {"construct_neighborhood_residential", "construct_neighborhood_commercial"}

TypeColOf(op) ==
    IF op = "construct_neighborhood_residential"
    THEN fn.in.cfg.columns.resstock_building_type
    ELSE fn.in.cfg.columns.comstock_building_type

ReportedCount(counts, t) == IF t \in DOMAIN counts THEN counts[t] ELSE 0

\* C28: counts_by_type counts every sampled occurrence under its building
\* type: the count of each type is the number of sampled identifiers of that
\* type, also when an identifier was sampled more than once (so the counts
\* sum to the number of identifiers in building_ids).
C28_CountsEveryOccurrence ==
    SelectionCall =>
        \A k \in DOMAIN fn.in.chars :
            ReportedCount(fn.out.counts_by_type, fn.in.chars[k][TypeColOf(fn.op)]) =
                Cardinality(SampledOfType(fn.out.building_ids, fn.in.chars, TypeColOf(fn.op),
                                          fn.in.chars[k][TypeColOf(fn.op)]))

---------------------------------------------------------------------------
(* Hourly values of a run                                                  *)

\* The hourly series of run i are computed and not yet those of run i + 1.
HourlyOfRun == pc \in {"join_weather", "derive", "append", "write_run"}

\* The energy the file of a building reports within hour h.
EnergyInHour(bid, h) ==
    SumSeq([k \in DOMAIN BuildingRows(bid) |->
               IF HourOf(BuildingRows(bid)[k][1]) = h THEN BuildingRows(bid)[k][2] ELSE 0])

\* The unit count of a residential building whose type is in the
\* multifamily filter, 1 for any other building.
UnitScale(bid) ==
    LET row == ResCharsFile[CHOOSE k \in DOMAIN ResCharsFile : ResCharsFile[k].bldg_id = bid]
    IN IF row.building_type \in Range(cfg.multifamily_filter) THEN row.units ELSE 1

\* The sums over the sampled occurrences, one term per position of the
\* selection.
ResidentialSum(h) ==
    SumSeq([p \in DOMAIN sel.res |-> UnitScale(sel.res[p]) * EnergyInHour(sel.res[p], h)])

CommercialSum(h) == SumSeq([p \in DOMAIN sel.com |-> EnergyInHour(sel.com[p], h)])

\* The hours in which a sampled building reports.
ReportedHours(ids) ==
    UNION {{HourOf(BuildingRows(b)[k][1]) : k \in DOMAIN BuildingRows(b)} : b \in Range(ids)}

\* C26: for every run i and hour t the residential hourly value is
\* multiplier_i times the sum, over every sampled residential occurrence, of
\* the building's energy at t, scaled by its unit count when its type is in
\* the multifamily filter; the commercial hourly value is the plain sum over
\* the sampled commercial occurrences; multiplier_i is 1.0 when the
\* multiplier is disabled.
C26_HourlyValues ==
    HourlyOfRun =>
        /\ cfg.adjustment_multiplier_off => multipliers[i + 1] = Num(1)
        /\ {HourOf(hourly.res.index[k]) : k \in DOMAIN hourly.res.index} =
               Min(ReportedHours(sel.res))..Max(ReportedHours(sel.res))
        /\ {HourOf(hourly.com.index[k]) : k \in DOMAIN hourly.com.index} =
               Min(ReportedHours(sel.com))..Max(ReportedHours(sel.com))
        /\ \A k \in DOMAIN hourly.res.index :
              hourly.res.cols[cfg.columns.resstock_electricity_kwh][k] =
                  Some(RatMul(multipliers[i + 1],
                              Num(ResidentialSum(HourOf(hourly.res.index[k])))))
        /\ \A k \in DOMAIN hourly.com.index :
              hourly.com.cols[cfg.columns.comstock_electricity_kwh][k] =
                  Some(Num(CommercialSum(HourOf(hourly.com.index[k]))))

\* The second run of an execution with the multiplier on: building 3, not in
\* the filter, was sampled twice and a building of the filter as well, and
\* the residential value of an hour is neither the unscaled sum nor the sum
\* without the multiplier.
C26_Witness ==
    /\ HourlyOfRun
    /\ i = 1
    /\ multipliers[i + 1] # Num(1)
    /\ Cardinality({p \in DOMAIN sel.res : sel.res[p] = 3}) = 2
    /\ \E p \in DOMAIN sel.res : UnitScale(sel.res[p]) > 1
    /\ \E k \in DOMAIN hourly.res.index :
          /\ ResidentialSum(HourOf(hourly.res.index[k])) > 0
          /\ hourly.res.cols[cfg.columns.resstock_electricity_kwh][k] #
                 Some(Num(ResidentialSum(HourOf(hourly.res.index[k]))))

---------------------------------------------------------------------------
(* Alignment of the compiled table                                         *)

\* The index the compiled table has, or is about to be given, when
\* add_run_cols is called: that of run 0's residential series.
CompiledIndex == IF compiled = <<>> THEN hourly.res.index ELSE compiled[1].index

\* C27: whenever add_run_cols is called, the residential and the commercial
\* hourly series of run i both have exactly the timestamp index of run 0's
\* residential series, so that Residential{i} and Commercial{i} hold run i's
\* values at the timestamps of the compiled table.
C27_RunSeriesShareIndex ==
    pc = "append" =>
        /\ hourly.res.index = CompiledIndex
        /\ hourly.com.index = CompiledIndex

---------------------------------------------------------------------------
(* Run worker and service                                                  *)

TerminalStatus == {"succeeded", "failed"}

\* The status changes a step may make to a run.
StatusMoves == {<<"queued", "running">>, <<"running", "succeeded">>, <<"running", "failed">>}

\* A finished run has its finishing time, a failed one its error message,
\* and no worker thread holds a finished run.
OutcomeRecorded ==
    \A r \in DOMAIN runs :
        /\ runs[r].status \in {"queued", "running", "succeeded", "failed"}
        /\ runs[r].status \in TerminalStatus =>
              /\ runs[r].finished_at
              /\ runs[r].started_at
              /\ runs[r].status = "failed" => runs[r].error_message
              /\ \A t \in DOMAIN wthreads : wthreads[t].run # r
        /\ runs[r].status = "queued" => ~runs[r].started_at /\ ~runs[r].finished_at

\* C24: a run's status only moves queued -> running -> succeeded or failed;
\* a run that is succeeded or failed never changes status again and is never
\* picked up again; every run that is succeeded or failed has finished_at
\* set, a failed one also an error message.
C24_RunOutcomeRecorded ==
    /\ []OutcomeRecorded
    /\ [][\A r \in DOMAIN runs :
             /\ runs'[r].run_id = runs[r].run_id
             /\ runs'[r].status # runs[r].status =>
                    <<runs[r].status, runs'[r].status>> \in StatusMoves
             /\ \A t \in DOMAIN wthreads' :
                    (wthreads'[t].run = r /\ wthreads[t].run # r) => runs[r].status = "queued"]_vars

\* Two runs were executed in the order of their creation: the first one
\* failed with its message, the second succeeded.
C24_Witness ==
    /\ Len(runs) = 2
    /\ runs[1].status = "failed" /\ runs[1].error_message /\ runs[1].finished_at
    /\ runs[2].status = "succeeded" /\ ~runs[2].error_message /\ runs[2].finished_at
    /\ \A t \in DOMAIN wthreads : wthreads[t].pc = "poll"

\* C25: while the worker is started and not stopped, every run created by
\* POST /runs for an existing config eventually is succeeded or failed;
\* POST /runs for a config id that does not exist answers 404 and creates no
\* run, and every other POST /runs creates one queued run.
C25_EveryRunFinishes ==
    /\ \A r \in 1..MaxSubmits :
           (Len(runs) >= r) ~>
               (worker.stop \/ (Len(runs) >= r /\ runs[r].status \in TerminalStatus))
    /\ [][(http' # http /\ http'.op = "POST /runs") =>
              IF http'.id \in DOMAIN configs
              THEN /\ http'.status = 200
                   /\ runs' = Append(runs, runs'[Len(runs')])
                   /\ runs'[Len(runs')].status = "queued"
                   /\ runs'[Len(runs')].config_id = http'.id
              ELSE http'.status = 404 /\ runs' = runs]_vars

\* The first run has succeeded, the worker was never stopped, and the last
\* request, a POST /runs for a config that does not exist, was answered 404.
C25_Witness ==
    /\ Len(runs) = 1
    /\ runs[1].status = "succeeded"
    /\ ~worker.stop
    /\ http = [op |-> "POST /runs", id |-> 2, status |-> 404]
    /\ Len(configs) = 1

\* C29: at every moment at most one run has status running, and calling
\* Worker.start again, also concurrently from two threads, never creates a
\* second worker thread.
C29_OneWorkerOneRun ==
    /\ Len(wthreads) <= 1
    /\ Cardinality({r \in DOMAIN runs : runs[r].status = "running"}) <= 1

\* C30: a run executes the configuration text its config had when the run
\* was submitted: the YAML the pipeline process is started with is the text
\* of the config at the time of POST /runs, whatever PUT /configs/{id} did
\* in between.
C30_RunsSubmittedText ==
    \A t \in DOMAIN wthreads :
        wthreads[t].config_yaml # <<>> =>
            wthreads[t].config_yaml[1] = runs[wthreads[t].run].submitted_yaml


====
